---------------------------- MODULE Spec2Model ----------------------------
(***************************************************************************)
(* ORI-A.py: the typed record catalog of src/ORI_A/ORI_A.py and its        *)
(* object -> XML serializer (Serializable._ORI_A_ordered_fields and        *)
(* Serializable.to_xml), modelled as a state machine: a caller constructs  *)
(* a record, may assign to its attributes, and then serializes it.         *)
(***************************************************************************)
EXTENDS Integers, Sequences, FiniteSets, TLC

VARIABLES
    self,     \* the record instance the caller holds (a dataclass object)
    nset,     \* number of attribute assignments made on it so far
    pc,       \* "built": not serialized yet; "done": to_xml has returned
    root,     \* the root argument of the to_xml call (None before the call)
    fields,   \* to_xml's local `fields` in the outermost call (<<>> before)
    xml,      \* the element to_xml returned (None before the call), or
              \* ValueError when the call raised
    written,  \* what save handed to lxml's writer (None before the call)
    heap,     \* the element objects made so far, by identity (1, 2, ...)
    stack,    \* per thread, the frames of its to_xml calls, outermost first
    tpc,      \* per thread: "idle", "running", "returned" or "raised"
    ret,      \* per thread, the identity of the element its call returned
    arg,      \* per thread, the instance and root tag it serializes
    ncalls    \* per thread, the number of to_xml invocations begun

\* The state of a single caller, and the state of callers on threads.
cvars == <<self, nset, pc, root, fields, xml, written>>
tvars == <<heap, stack, tpc, ret, arg, ncalls>>
vars == <<self, nset, pc, root, fields, xml, written,
          heap, stack, tpc, ret, arg, ncalls>>

----------------------------------------------------------------------------
(* Bounds of the model.                                                    *)

\* Longest list a caller puts in a field.
MaxLen == 2
\* Number of attribute assignments a caller makes after construction.
MaxSetattr == 1
\* The most levels of parts below a meeting or an agenda item.
MaxNest == 3

----------------------------------------------------------------------------
(* Python values.  Every value carries its runtime kind in k.              *)

None == [k |-> "None"]
PyStr(s) == [k |-> "str", s |-> s]
PyInt(n) == [k |-> "int", n |-> n]
PyBool(b) == [k |-> "bool", b |-> b]
\* A member of an Enum class, by class and symbolic name.
PyEnum(cls, name) == [k |-> "Enum", cls |-> cls, name |-> name]
\* An xsdata XmlDate / XmlDateTime / XmlTime, by its lexical form.
PyXml(type, iso) == [k |-> "Xml", type |-> type, iso |-> iso]
PyList(items) == [k |-> "list", items |-> items]
\* The str whose only character is the control character NUL.
NUL == [k |-> "str", s |-> "<NUL>"]
\* A dict, by its key-value pairs in insertion order.
PyDict(pairs) == [k |-> "dict", pairs |-> pairs]
\* A uuid.UUID, by its canonical hexadecimal form.
PyUUID(hex) == [k |-> "UUID", hex |-> hex]
\* An instance of a dataclass: its class and its attribute dictionary.
PyObj(cls, attrs) == [k |-> "obj", cls |-> cls, attrs |-> attrs]

getattr(obj, name) == obj.attrs[name]

----------------------------------------------------------------------------
(* The record type catalog.                                                *)

\* A dataclasses.Field: its name, the first alternative of its annotation,
\* whether the annotation also allows list[...], and whether it has no
\* default (the declared default is None otherwise).
Field(name, type, repeatable, required) ==
    [name |-> name, type |-> type, repeatable |-> repeatable, required |-> required]

\* An Enum member: symbolic name and associated value.
Member(name, value) == [name |-> name, value |-> value]

\* class GremiumGegevens(Serializable): the declared dataclass fields, in declaration order.
GremiumGegevens ==
    << Field("naam", "str", FALSE, TRUE),
       Field("identificatie", "str", FALSE, FALSE) >>

\* class NaamGegevens(Serializable): the declared dataclass fields, in declaration order.
NaamGegevens ==
    << Field("achternaam", "str", FALSE, TRUE),
       Field("tussenvoegsel", "str", FALSE, FALSE),
       Field("voorletters", "str", FALSE, FALSE),
       Field("voornamen", "str", FALSE, FALSE),
       Field("volledigeNaam", "str", FALSE, FALSE) >>

\* class NevenfunctieGegevens(Serializable): the declared dataclass fields, in declaration order.
NevenfunctieGegevens ==
    << Field("omschrijving", "str", FALSE, TRUE),
       Field("naamOrganisatie", "str", FALSE, FALSE),
       Field("aantalUrenPerMaand", "int", FALSE, FALSE),
       Field("indicatieBezoldigd", "bool", FALSE, FALSE),
       Field("indicatieFunctieVanwegeLidmaatschap", "bool", FALSE, FALSE),
       Field("datumMelding", "XmlDate", FALSE, FALSE),
       Field("datumAanvang", "XmlDate", FALSE, FALSE),
       Field("datumEinde", "XmlDate", FALSE, FALSE) >>

\* class StemmingOverPersonenGegevens(Serializable): the declared dataclass fields, in declaration order.
StemmingOverPersonenGegevens ==
    << Field("naamKandidaat", "str", FALSE, TRUE),
       Field("aantalUitgebrachteStemmen", "int", FALSE, FALSE) >>

\* class VerwijzingGegevens(Serializable): the declared dataclass fields, in declaration order.
VerwijzingGegevens ==
    << Field("verwijzingID", "str", FALSE, TRUE),
       Field("verwijzingNaam", "str", FALSE, FALSE) >>

\* class BegripGegevens(Serializable): the declared dataclass fields, in declaration order.
BegripGegevens ==
    << Field("begripLabel", "str", FALSE, TRUE),
       Field("verwijzingBegrippenlijst", "VerwijzingGegevens", FALSE, TRUE),
       Field("begripCode", "str", FALSE, FALSE) >>

\* class BesluitGegevens(Serializable): the declared dataclass fields, in declaration order.
BesluitGegevens ==
    << Field("ID", "str", TRUE, TRUE),
       Field("resultaat", "BesluitResultaatEnum", FALSE, TRUE),
       Field("toelichting", "str", FALSE, FALSE),
       Field("toezegging", "str", FALSE, FALSE) >>

\* class DagelijksBestuurLidmaatschapGegevens(Serializable): the declared dataclass fields, in declaration order.
DagelijksBestuurLidmaatschapGegevens ==
    << Field("verwijzingDagelijksBestuur", "VerwijzingGegevens", FALSE, TRUE),
       Field("ID", "str", TRUE, FALSE),
       Field("datumBeginDagelijksBestuurLidmaatschap", "XmlDate", FALSE, FALSE),
       Field("datumEindeDagelijksBestuurLidmaatschap", "XmlDate", FALSE, FALSE) >>

\* class FractielidmaatschapGegevens(Serializable): the declared dataclass fields, in declaration order.
FractielidmaatschapGegevens ==
    << Field("verwijzingFractie", "VerwijzingGegevens", FALSE, TRUE),
       Field("ID", "str", TRUE, FALSE),
       Field("datumBeginFractielidmaatschap", "XmlDate", FALSE, FALSE),
       Field("datumEindeFractielidmaatschap", "XmlDate", FALSE, FALSE),
       Field("indicatieVoorzitter", "bool", FALSE, FALSE) >>

\* class StemGegevens(Serializable): the declared dataclass fields, in declaration order.
StemGegevens ==
    << Field("keuzeStemming", "KeuzeStemmingEnum", FALSE, TRUE),
       Field("gegevenOpStemming", "VerwijzingGegevens", FALSE, TRUE),
       Field("ID", "str", TRUE, FALSE) >>

\* class StemresultaatPerFractieGegevens(Serializable): the declared dataclass fields, in declaration order.
StemresultaatPerFractieGegevens ==
    << Field("fractieStemresultaat", "FractieStemresultaatEnum", FALSE, TRUE),
       Field("verwijzingStemming", "VerwijzingGegevens", FALSE, TRUE),
       Field("ID", "str", TRUE, FALSE) >>

\* class DagelijksBestuurGegevens(Serializable): the declared dataclass fields, in declaration order.
DagelijksBestuurGegevens ==
    << Field("ID", "str", TRUE, TRUE),
       Field("naam", "str", FALSE, TRUE),
       Field("overheidsorgaan", "BegripGegevens", FALSE, TRUE),
       Field("type", "BegripGegevens", FALSE, FALSE) >>

\* class FractieGegevens(Serializable): the declared dataclass fields, in declaration order.
FractieGegevens ==
    << Field("ID", "str", TRUE, TRUE),
       Field("naam", "str", FALSE, TRUE),
       Field("overheidsorgaan", "BegripGegevens", FALSE, FALSE),
       Field("neemtDeelAanStemming", "StemresultaatPerFractieGegevens", TRUE, FALSE) >>

\* class InformatieobjectGegevens(Serializable): the declared dataclass fields, in declaration order.
InformatieobjectGegevens ==
    << Field("verwijzingInformatieobject", "VerwijzingGegevens", FALSE, TRUE),
       Field("informatieobjectType", "BegripGegevens", FALSE, FALSE) >>

\* class NatuurlijkPersoonGegevens(Serializable): the declared dataclass fields, in declaration order.
NatuurlijkPersoonGegevens ==
    << Field("ID", "str", TRUE, TRUE),
       Field("naam", "NaamGegevens", FALSE, TRUE),
       Field("geslachtsaanduiding", "GeslachtsaanduidingEnum", FALSE, FALSE),
       Field("functie", "BegripGegevens", FALSE, FALSE),
       Field("nevenfunctie", "NevenfunctieGegevens", TRUE, FALSE),
       Field("isLidVanFractie", "FractielidmaatschapGegevens", FALSE, FALSE),
       Field("isLidVanDagelijksBestuur", "DagelijksBestuurLidmaatschapGegevens", FALSE, FALSE) >>

\* class StemmingGegevens(Serializable): the declared dataclass fields, in declaration order.
StemmingGegevens ==
    << Field("ID", "str", TRUE, TRUE),
       Field("heeftBetrekkingOpAgendapunt", "VerwijzingGegevens", FALSE, TRUE),
       Field("type", "StemmingTypeEnum", FALSE, FALSE),
       Field("resultaatMondelingeStemming", "ResultaatMondelingeStemmingEnum", FALSE, FALSE),
       Field("resultaatStemmingOverPersonen", "str", FALSE, FALSE),
       Field("stemmingOverPersonen", "StemmingOverPersonenGegevens", TRUE, FALSE),
       Field("leidtTotBesluit", "VerwijzingGegevens", FALSE, FALSE),
       Field("heeftBetrekkingOpBesluitvormingsstuk", "InformatieobjectGegevens", TRUE, FALSE) >>

\* class TijdsaanduidingGegevens(Serializable): the declared dataclass fields, in declaration order.
TijdsaanduidingGegevens ==
    << Field("aanvang", "int", FALSE, TRUE),
       Field("einde", "int", FALSE, FALSE),
       Field("isRelatiefTot", "InformatieobjectGegevens", FALSE, FALSE) >>

\* class VergaderingGegevens(Serializable): the declared dataclass fields, in declaration order.
VergaderingGegevens ==
    << Field("naam", "str", FALSE, TRUE),
       Field("datum", "XmlDate", FALSE, TRUE),
       Field("ID", "str", TRUE, FALSE),
       Field("geplandeDatum", "XmlDate", FALSE, FALSE),
       Field("geplandeAanvang", "XmlDateTime", FALSE, FALSE),
       Field("geplandEinde", "XmlDateTime", FALSE, FALSE),
       Field("aanvang", "XmlDateTime", FALSE, FALSE),
       Field("einde", "XmlDateTime", FALSE, FALSE),
       Field("publicatiedatum", "XmlDateTime", FALSE, FALSE),
       Field("type", "BegripGegevens", FALSE, FALSE),
       Field("toelichting", "str", FALSE, FALSE),
       Field("georganiseerdDoorGremium", "GremiumGegevens", FALSE, FALSE),
       Field("locatie", "str", FALSE, FALSE),
       Field("weblocatie", "str", FALSE, FALSE),
       Field("status", "VergaderingStatusEnum", FALSE, FALSE),
       Field("overheidsorgaan", "BegripGegevens", FALSE, FALSE),
       Field("isVastgelegdMiddels", "InformatieobjectGegevens", TRUE, FALSE),
       Field("isGenotuleerdIn", "InformatieobjectGegevens", FALSE, FALSE),
       Field("heeftAlsBijlage", "InformatieobjectGegevens", TRUE, FALSE),
       Field("heeftAlsDeelvergadering", "VergaderingGegevens", TRUE, FALSE) >>

\* class AgendapuntGegevens(Serializable): the declared dataclass fields, in declaration order.
AgendapuntGegevens ==
    << Field("ID", "str", TRUE, TRUE),
       Field("naam", "str", FALSE, TRUE),
       Field("geplandVolgnummer", "str", FALSE, FALSE),
       Field("volgnummer", "str", FALSE, FALSE),
       Field("volgnummerWeergave", "str", FALSE, FALSE),
       Field("omschrijving", "str", FALSE, FALSE),
       Field("geplandeStarttijd", "XmlDateTime", FALSE, FALSE),
       Field("geplandeEindtijd", "XmlDateTime", FALSE, FALSE),
       Field("starttijd", "XmlDateTime", FALSE, FALSE),
       Field("eindtijd", "XmlDateTime", FALSE, FALSE),
       Field("tijdsaanduidingMediabron", "TijdsaanduidingGegevens", TRUE, FALSE),
       Field("locatie", "str", FALSE, FALSE),
       Field("indicatieHamerstuk", "bool", FALSE, FALSE),
       Field("indicatieBehandeld", "bool", FALSE, FALSE),
       Field("indicatieBesloten", "bool", FALSE, FALSE),
       Field("overheidsorgaan", "BegripGegevens", FALSE, FALSE),
       Field("wordtBehandeldTijdens", "VerwijzingGegevens", FALSE, FALSE),
       Field("heeftBehandelendAmbtenaar", "VerwijzingGegevens", TRUE, FALSE),
       Field("heeftAlsBijlage", "InformatieobjectGegevens", TRUE, FALSE),
       Field("heeftAlsSubagendapunt", "AgendapuntGegevens", TRUE, FALSE) >>

\* class SpreekfragmentGegevens(Serializable): the declared dataclass fields, in declaration order.
SpreekfragmentGegevens ==
    << Field("gedurendeAgendapunt", "VerwijzingGegevens", TRUE, TRUE),
       Field("ID", "str", TRUE, FALSE),
       Field("naam", "str", FALSE, FALSE),
       Field("aanvang", "XmlDateTime", FALSE, FALSE),
       Field("einde", "XmlDateTime", FALSE, FALSE),
       Field("taal", "str", FALSE, FALSE),
       Field("tekst", "str", FALSE, FALSE),
       Field("positieNotulen", "str", FALSE, FALSE),
       Field("tijdsaanduidingMediabron", "TijdsaanduidingGegevens", TRUE, FALSE) >>

\* class AanwezigeDeelnemerGegevens(Serializable): the declared dataclass fields, in declaration order.
AanwezigeDeelnemerGegevens ==
    << Field("isNatuurlijkPersoon", "NatuurlijkPersoonGegevens", FALSE, TRUE),
       Field("ID", "str", TRUE, FALSE),
       Field("rolnaam", "BegripGegevens", FALSE, FALSE),
       Field("organisatie", "str", FALSE, FALSE),
       Field("deelnemerspositie", "str", FALSE, FALSE),
       Field("aanvangAanwezigheid", "XmlDateTime", FALSE, FALSE),
       Field("eindeAanwezigheid", "XmlDateTime", FALSE, FALSE),
       Field("neemtDeelAanVergadering", "VerwijzingGegevens", TRUE, FALSE),
       Field("neemtDeelAanStemming", "StemGegevens", TRUE, FALSE),
       Field("spreektTijdensSpreekfragment", "SpreekfragmentGegevens", TRUE, FALSE) >>

\* class ORI_A(Serializable): the declared dataclass fields, in declaration order.
ORI_A ==
    << Field("vergadering", "VergaderingGegevens", FALSE, TRUE),
       Field("agendapunt", "AgendapuntGegevens", TRUE, TRUE),
       Field("stemming", "StemmingGegevens", TRUE, FALSE),
       Field("besluit", "BesluitGegevens", TRUE, FALSE),
       Field("fractie", "FractieGegevens", TRUE, FALSE),
       Field("dagelijksBestuur", "DagelijksBestuurGegevens", TRUE, FALSE),
       Field("persoonBuitenVergadering", "NatuurlijkPersoonGegevens", TRUE, FALSE),
       Field("aanwezigeDeelnemer", "AanwezigeDeelnemerGegevens", TRUE, FALSE) >>

\* class BesluitResultaatEnum(Enum): the members, in definition order, as name = value.
BesluitResultaatEnum ==
    << Member("unaniem_aangenomen", "Unaniem aangenomen"),
       Member("aangenomen", "Aangenomen"),
       Member("geamendeerd_aangenomen", "Geamendeerd aangenomen"),
       Member("onder_voorbehoud_aangenomen", "Onder voorbehoud aangenomen"),
       Member("verworpen", "Verworpen"),
       Member("aangehouden", "Aangehouden") >>

\* class GeslachtsaanduidingEnum(Enum): the members, in definition order, as name = value.
GeslachtsaanduidingEnum ==
    << Member("man", "Man"),
       Member("vrouw", "Vrouw"),
       Member("anders", "Anders"),
       Member("onbekend", "Onbekend") >>

\* class KeuzeStemmingEnum(Enum): the members, in definition order, as name = value.
KeuzeStemmingEnum ==
    << Member("tegen", "Tegen"),
       Member("afwezig", "Afwezig"),
       Member("onthouden", "Onthouden") >>

\* class ResultaatMondelingeStemmingEnum(Enum): the members, in definition order, as name = value.
ResultaatMondelingeStemmingEnum ==
    << Member("voor", "Voor"),
       Member("tegen", "Tegen"),
       Member("gelijk", "Gelijk") >>

\* class StemmingTypeEnum(Enum): the members, in definition order, as name = value.
StemmingTypeEnum ==
    << Member("hoofdelijk", "Hoofdelijk"),
       Member("regulier", "Regulier"),
       Member("schriftelijk", "Schriftelijk") >>

\* class FractieStemresultaatEnum(Enum): the members, in definition order, as name = value.
FractieStemresultaatEnum ==
    << Member("aangenomen", "Aangenomen"),
       Member("verworpen", "Verworpen"),
       Member("verdeeld", "Verdeeld") >>

\* class VergaderingStatusEnum(Enum): the members, in definition order, as name = value.
VergaderingStatusEnum ==
    << Member("gepland", "Gepland"),
       Member("gehouden", "Gehouden"),
       Member("geannuleerd", "Geannuleerd") >>

\* Every subclass of Serializable.
Classes ==
    { "GremiumGegevens", "NaamGegevens", "NevenfunctieGegevens",
      "StemmingOverPersonenGegevens", "VerwijzingGegevens", "BegripGegevens",
      "BesluitGegevens", "DagelijksBestuurLidmaatschapGegevens",
      "FractielidmaatschapGegevens", "StemGegevens",
      "StemresultaatPerFractieGegevens", "DagelijksBestuurGegevens",
      "FractieGegevens", "InformatieobjectGegevens",
      "NatuurlijkPersoonGegevens", "StemmingGegevens",
      "TijdsaanduidingGegevens", "VergaderingGegevens", "AgendapuntGegevens",
      "SpreekfragmentGegevens", "AanwezigeDeelnemerGegevens", "ORI_A" }

\* Every Enum class.
Enums ==
    { "BesluitResultaatEnum", "GeslachtsaanduidingEnum", "KeuzeStemmingEnum",
      "ResultaatMondelingeStemmingEnum", "StemmingTypeEnum",
      "FractieStemresultaatEnum", "VergaderingStatusEnum" }

\* dataclasses.fields(cls): the declared fields of cls, in declaration order.
dataclasses_fields(cls) ==
    CASE cls = "GremiumGegevens" -> GremiumGegevens
      [] cls = "NaamGegevens" -> NaamGegevens
      [] cls = "NevenfunctieGegevens" -> NevenfunctieGegevens
      [] cls = "StemmingOverPersonenGegevens" -> StemmingOverPersonenGegevens
      [] cls = "VerwijzingGegevens" -> VerwijzingGegevens
      [] cls = "BegripGegevens" -> BegripGegevens
      [] cls = "BesluitGegevens" -> BesluitGegevens
      [] cls = "DagelijksBestuurLidmaatschapGegevens" -> DagelijksBestuurLidmaatschapGegevens
      [] cls = "FractielidmaatschapGegevens" -> FractielidmaatschapGegevens
      [] cls = "StemGegevens" -> StemGegevens
      [] cls = "StemresultaatPerFractieGegevens" -> StemresultaatPerFractieGegevens
      [] cls = "DagelijksBestuurGegevens" -> DagelijksBestuurGegevens
      [] cls = "FractieGegevens" -> FractieGegevens
      [] cls = "InformatieobjectGegevens" -> InformatieobjectGegevens
      [] cls = "NatuurlijkPersoonGegevens" -> NatuurlijkPersoonGegevens
      [] cls = "StemmingGegevens" -> StemmingGegevens
      [] cls = "TijdsaanduidingGegevens" -> TijdsaanduidingGegevens
      [] cls = "VergaderingGegevens" -> VergaderingGegevens
      [] cls = "AgendapuntGegevens" -> AgendapuntGegevens
      [] cls = "SpreekfragmentGegevens" -> SpreekfragmentGegevens
      [] cls = "AanwezigeDeelnemerGegevens" -> AanwezigeDeelnemerGegevens
      [] cls = "ORI_A" -> ORI_A

\* list(enum_cls): the members of an Enum class, in definition order.
members(cls) ==
    CASE cls = "BesluitResultaatEnum" -> BesluitResultaatEnum
      [] cls = "GeslachtsaanduidingEnum" -> GeslachtsaanduidingEnum
      [] cls = "KeuzeStemmingEnum" -> KeuzeStemmingEnum
      [] cls = "ResultaatMondelingeStemmingEnum" -> ResultaatMondelingeStemmingEnum
      [] cls = "StemmingTypeEnum" -> StemmingTypeEnum
      [] cls = "FractieStemresultaatEnum" -> FractieStemresultaatEnum
      [] cls = "VergaderingStatusEnum" -> VergaderingStatusEnum

----------------------------------------------------------------------------
(* Serializable._ORI_A_ordered_fields and its two overrides.               *)

\* Serializable._ORI_A_ordered_fields: the declaration order.
Serializable_ORI_A_ordered_fields(cls) == dataclasses_fields(cls)

\* The BegripGegevens override without its swap: the declaration order.
BegripGegevens_unswapped(cls) == Serializable_ORI_A_ordered_fields(cls)

\* BegripGegevens._ORI_A_ordered_fields: (fields[0], fields[2], fields[1]),
\* with Python's 0-based indices written 1-based.
BegripGegevens_ORI_A_ordered_fields(cls) ==
    LET fields_ == Serializable_ORI_A_ordered_fields(cls)
    IN  <<fields_[1], fields_[3], fields_[2]>>

\* The DagelijksBestuurLidmaatschapGegevens override as fields[1:] alone:
\* the first field is dropped instead of moved to the back.
DagelijksBestuurLidmaatschapGegevens_dropped(cls) ==
    LET fields_ == Serializable_ORI_A_ordered_fields(cls)
    IN  SubSeq(fields_, 2, Len(fields_))

\* DagelijksBestuurLidmaatschapGegevens._ORI_A_ordered_fields:
\* fields[1:] + fields[:1].
DagelijksBestuurLidmaatschapGegevens_ORI_A_ordered_fields(cls) ==
    LET fields_ == Serializable_ORI_A_ordered_fields(cls)
    IN  SubSeq(fields_, 2, Len(fields_)) \o SubSeq(fields_, 1, 1)

\* Method resolution that ignores the DagelijksBestuurLidmaatschapGegevens
\* override.
_ORI_A_ordered_fields_without_override(cls) ==
    CASE cls = "BegripGegevens" -> BegripGegevens_ORI_A_ordered_fields(cls)
      [] OTHER -> Serializable_ORI_A_ordered_fields(cls)

\* cls._ORI_A_ordered_fields(): the method the class resolves to.
_ORI_A_ordered_fields(cls) ==
    CASE cls = "BegripGegevens" -> BegripGegevens_ORI_A_ordered_fields(cls)
      [] cls = "DagelijksBestuurLidmaatschapGegevens" ->
            DagelijksBestuurLidmaatschapGegevens_ORI_A_ordered_fields(cls)
      [] OTHER -> Serializable_ORI_A_ordered_fields(cls)

----------------------------------------------------------------------------
(* str(val), as Python computes it for each kind of value.                 *)

\* Enum.value of a member.
value_of(val) ==
    LET ms == members(val.cls)
        i  == CHOOSE j \in 1..Len(ms) : ms[j].name = val.name
    IN  ms[i].value

RECURSIVE repr(_), join_repr(_, _), join_fields(_, _, _), join_pairs(_, _)

\* ", ".join(repr(x) for x in items[i:])
join_repr(items, i) ==
    IF i > Len(items) THEN ""
    ELSE IF i = Len(items) THEN repr(items[i])
    ELSE repr(items[i]) \o ", " \o join_repr(items, i + 1)

\* ", ".join(f"{f.name}={getattr(obj, f.name)!r}" for f in fs[i:]), the
\* argument list of the repr a dataclass generates.
join_fields(obj, fs, i) ==
    IF i > Len(fs) THEN ""
    ELSE LET one == fs[i].name \o "=" \o repr(getattr(obj, fs[i].name))
         IN  IF i = Len(fs) THEN one
             ELSE one \o ", " \o join_fields(obj, fs, i + 1)

\* ", ".join(f"{k!r}: {v!r}" for k, v in pairs[i:]), the body of a dict's
\* repr.
join_pairs(pairs, i) ==
    IF i > Len(pairs) THEN ""
    ELSE LET one == repr(pairs[i].key) \o ": " \o repr(pairs[i].val)
         IN  IF i = Len(pairs) THEN one
             ELSE one \o ", " \o join_pairs(pairs, i + 1)

\* repr(val): what str() of a list shows for each of its items.  A control
\* character of a str is shown escaped, as the four characters \x00.
repr(val) ==
    CASE val.k = "None" -> "None"
      [] val.k = "str"  -> IF val = NUL THEN "'\\x00'" ELSE "'" \o val.s \o "'"
      [] val.k = "int"  -> ToString(val.n)
      [] val.k = "bool" -> IF val.b THEN "True" ELSE "False"
      [] val.k = "Enum" ->
            "<" \o val.cls \o "." \o val.name \o ": '" \o value_of(val) \o "'>"
      [] val.k = "Xml"  -> val.type \o "(" \o val.iso \o ")"
      [] val.k = "list" -> "[" \o join_repr(val.items, 1) \o "]"
      [] val.k = "dict" -> "{" \o join_pairs(val.pairs, 1) \o "}"
      [] val.k = "UUID" -> "UUID('" \o val.hex \o "')"
      [] val.k = "obj"  ->
            val.cls \o "(" \o join_fields(val, dataclasses_fields(val.cls), 1) \o ")"

\* str(val): a str is itself, an int its decimal digits, a bool the
\* capitalised Python literal, an Enum member "Class.name" (Enum.__str__),
\* an xsdata date or time its lexical form, a list the repr of its items.
str(val) ==
    CASE val.k = "None" -> "None"
      [] val.k = "str"  -> val.s
      [] val.k = "int"  -> ToString(val.n)
      [] val.k = "bool" -> IF val.b THEN "True" ELSE "False"
      [] val.k = "Enum" -> val.cls \o "." \o val.name
      [] val.k = "Xml"  -> val.iso
      [] val.k = "list" -> repr(val)
      [] val.k = "dict" -> repr(val)
      [] val.k = "UUID" -> val.hex
      [] val.k = "obj"  -> repr(val)

----------------------------------------------------------------------------
(* lxml elements: tag, text, attributes, namespace map and children.       *)

\* Element declaring the document's default namespace on every element.
Element_declaring(tag) ==
    [tag |-> tag, text |-> None, attrib |-> <<>>,
     nsmap |-> << [prefix |-> None, uri |-> "https://ori-a.nl"] >>,
     children |-> <<>>]

\* ET.Element(tag): no text, no attributes, no children.
Element(tag) ==
    [tag |-> tag, text |-> None, attrib |-> <<>>, nsmap |-> <<>>, children |-> <<>>]

\* append putting the child first, as parent.insert(0, child) would.
append_front(parent, child) ==
    [parent EXCEPT !.children = <<child>> \o @]

\* append leaving out a child that has neither text nor children.
append_nonempty(parent, child) ==
    IF child.text = None /\ child.children = <<>> THEN parent
    ELSE [parent EXCEPT !.children = Append(@, child)]

\* parent.append(child)
append(parent, child) ==
    [parent EXCEPT !.children = Append(@, child)]

\* The ValueError lxml raises; as the value of a call, the call raised it.
ValueError == [k |-> "ValueError"]

\* lxml accepts a text that holds no NUL byte or control character.
xml_compatible(text) == text # NUL.s

\* SubElement assigning the text to the parent, as parent.text = text after
\* ET.SubElement(parent, tag) would.
SubElement_texting_parent(parent, tag, text) ==
    IF xml_compatible(text)
    THEN [append(parent, Element(tag)) EXCEPT !.text = PyStr(text)]
    ELSE ValueError

\* ET.SubElement(parent, tag).text = text: lxml raises ValueError for a
\* text that is not XML compatible.
SubElement(parent, tag, text) ==
    IF xml_compatible(text)
    THEN append(parent, [Element(tag) EXCEPT !.text = PyStr(text)])
    ELSE ValueError

----------------------------------------------------------------------------
(* Serializable.to_xml                                                     *)

\* isinstance(val, Serializable)
isinstance_Serializable(val) == val.k = "obj" /\ val.cls \in Classes

\* is_None with the absence check lost: no field is skipped.
is_None_never(field_value) == FALSE

\* `if field_value is None: continue`
is_None(field_value) == field_value.k = "None"

\* listify without its isinstance test: every value is wrapped.
listify_always(field_value) == <<field_value>>

\* listify applying the absence check to the items too: an item that is
\* None is left out.
listify_present(field_value) ==
    IF field_value.k # "list" THEN <<field_value>>
    ELSE SelectSeq(field_value.items, LAMBDA val : val.k # "None")

\* The "listify" step: a value that is no list, tuple or set becomes a
\* one-element tuple; the result is the sequence the item loop walks.
listify(field_value) ==
    IF field_value.k # "list" THEN <<field_value>> ELSE field_value.items

RECURSIVE to_xml(_, _), for_field(_, _, _, _), for_val(_, _, _, _)

\* serialize_val naming a nested record's element after the record's class.
serialize_val_by_class(root_elem, field_name, val) ==
    IF isinstance_Serializable(val)
    THEN append(root_elem, to_xml(val, val.cls))
    ELSE SubElement(root_elem, field_name, str(val))

\* serialize_val with a type check: an item that is a dict, an arbitrary
\* object or a list raises instead of being stringified.
serialize_val_strict(root_elem, field_name, val) ==
    IF isinstance_Serializable(val)
    THEN LET child == to_xml(val, field_name)
         IN  IF child = ValueError THEN ValueError ELSE append(root_elem, child)
    ELSE IF val.k \in {"dict", "UUID", "list"} THEN ValueError
    ELSE SubElement(root_elem, field_name, str(val))

\* serialize_val skipping a nested record whose serialization raised, as a
\* try/except around the recursive call would.
serialize_val_swallowing(root_elem, field_name, val) ==
    IF isinstance_Serializable(val)
    THEN LET child == to_xml(val, field_name)
         IN  IF child = ValueError THEN root_elem ELSE append(root_elem, child)
    ELSE SubElement(root_elem, field_name, str(val))

\* The body of `for val in field_value`: a record is serialized under the
\* field's name and appended, anything else becomes a sub-element whose
\* text is str(val).
serialize_val(root_elem, field_name, val) ==
    IF isinstance_Serializable(val)
    THEN LET child == to_xml(val, field_name)
         IN  IF child = ValueError THEN ValueError ELSE append(root_elem, child)
    ELSE SubElement(root_elem, field_name, str(val))

\* `for val in field_value`, from the j-th item on; an exception raised in
\* the body ends the loop and the call.
for_val(root_elem, field_name, field_value, j) ==
    IF root_elem = ValueError THEN ValueError
    ELSE IF j > Len(field_value) THEN root_elem
    ELSE for_val(serialize_val(root_elem, field_name, field_value[j]),
                 field_name, field_value, j + 1)

\* `for field in fields`, from the i-th field on; an exception raised in
\* the body ends the loop and the call.
for_field(obj, root_elem, fields_, i) ==
    IF root_elem = ValueError THEN ValueError
    ELSE IF i > Len(fields_) THEN root_elem
    ELSE LET field_name  == fields_[i].name
             field_value == getattr(obj, field_name)
         IN  IF is_None(field_value)
             THEN for_field(obj, root_elem, fields_, i + 1)
             ELSE for_field(obj,
                            for_val(root_elem, field_name, listify(field_value), 1),
                            fields_, i + 1)

\* An ordering that looks at the instance: the fields that are not None
\* first.
self_ORI_A_ordered_fields_populated_first(obj) ==
    SelectSeq(_ORI_A_ordered_fields(obj.cls),
              LAMBDA f : ~is_None(getattr(obj, f.name)))
        \o SelectSeq(_ORI_A_ordered_fields(obj.cls),
                     LAMBDA f : is_None(getattr(obj, f.name)))

\* self._ORI_A_ordered_fields(): the method is a classmethod, so the call on
\* an instance passes type(self) and nothing of the instance.
self_ORI_A_ordered_fields(obj) == _ORI_A_ordered_fields(obj.cls)

\* The instance after a to_xml that stores the listified value back with
\* setattr(self, field_name, field_value).
self_after_to_xml_listified(obj) ==
    [obj EXCEPT !.attrs = [n \in DOMAIN @ |-> IF is_None(@[n]) THEN @[n]
                                              ELSE PyList(listify(@[n]))]]

\* The instance after to_xml: the method reads the fields with getattr and
\* rebinds only its local field_value; no statement writes to self or to a
\* nested record.
self_after_to_xml(obj) == obj

\* to_xml validating presence first: a required field that is None raises.
to_xml_validating(obj, root_) ==
    IF \E i \in 1..Len(dataclasses_fields(obj.cls)) :
          /\ dataclasses_fields(obj.cls)[i].required
          /\ getattr(obj, dataclasses_fields(obj.cls)[i].name) = None
    THEN ValueError
    ELSE for_field(obj, Element(root_), _ORI_A_ordered_fields(obj.cls), 1)

\* to_xml walking the fields in declaration order, ignoring the overrides.
to_xml_declared_order(obj, root_) ==
    for_field(obj, Element(root_), dataclasses_fields(obj.cls), 1)

\* Serializable.to_xml(self, root)
to_xml(obj, root_) ==
    for_field(obj, Element(root_), self_ORI_A_ordered_fields(obj), 1)

----------------------------------------------------------------------------
(* ORI_A.to_xml: the document root with its namespace declarations.        *)

xsi_ns == "http://www.w3.org/2001/XMLSchema-instance"

\* ET.Element(tag, nsmap=nsmap): an element declaring the namespaces of
\* nsmap, a sequence of prefix (None for the default namespace) and URI.
Element_nsmap(tag, nsmap) == [Element(tag) EXCEPT !.nsmap = nsmap]

\* set that forgets the attribute.
set_dropped(elem, name, value) == elem

\* elem.set(name, value): the attribute is added, or replaced where set.
set(elem, name, value) ==
    IF \E i \in 1..Len(elem.attrib) : elem.attrib[i].name = name
    THEN [elem EXCEPT !.attrib =
             [i \in 1..Len(@) |-> IF @[i].name = name
                                  THEN [name |-> name, value |-> value]
                                  ELSE @[i]]]
    ELSE [elem EXCEPT !.attrib = Append(@, [name |-> name, value |-> value])]

\* extend that appends the element itself, as parent.append(elements) would.
extend_nested(parent, elements) == append(parent, elements)

\* parent.extend(elements): the children of elements, in order, become the
\* last children of parent.
extend(parent, elements) ==
    [parent EXCEPT !.children = @ \o elements.children]

\* ORI_A.to_xml naming the new root "ORI-A" whatever the root argument is.
ORI_A_to_xml_fixed_tag(obj, root_) ==
    LET root_without_attribs == to_xml(obj, root_)
        root_elem ==
            Element_nsmap("ORI-A",
                          << [prefix |-> None, uri |-> "https://ori-a.nl"],
                             [prefix |-> PyStr("xsi"), uri |-> xsi_ns] >>)
    IN  IF root_without_attribs = ValueError THEN ValueError
        ELSE extend(root_elem, root_without_attribs)

\* The rest of ORI_A.to_xml that forgets to copy the children over.
ORI_A_root_elem_childless(root_without_attribs, root_) ==
    IF root_without_attribs = ValueError THEN ValueError
    ELSE Element_nsmap(root_,
                       << [prefix |-> None, uri |-> "https://ori-a.nl"],
                          [prefix |-> PyStr("xsi"), uri |-> xsi_ns] >>)

\* ORI_A.to_xml after super().to_xml(root) gave root_without_attribs (or
\* raised): the new root with its namespaces and schemaLocation, and the
\* children copied over.
ORI_A_root_elem(root_without_attribs, root_) ==
    LET root_elem ==
            Element_nsmap(root_,
                          << [prefix |-> None, uri |-> "https://ori-a.nl"],
                             [prefix |-> PyStr("xsi"), uri |-> xsi_ns] >>)
        with_location ==
            set(root_elem,
                "{" \o xsi_ns \o "}schemaLocation",
                "https://ori-a.nl https://github.com/Regionaal-Archief-Rivierenland/ORI-A-XSD/releases/download/v1.0.0/ORI-A.xsd")
    IN  IF root_without_attribs = ValueError THEN ValueError
        ELSE extend(with_location, root_without_attribs)

\* ORI_A.to_xml(self, root)
ORI_A_to_xml(obj, root_) == ORI_A_root_elem(to_xml(obj, root_), root_)

\* a | b on dicts: the pairs of a, each with b's value where b has the key,
\* then the pairs of b whose key a lacks.
dict_or(a, b) ==
    LET has(d, key) == \E i \in 1..Len(d.pairs) : d.pairs[i].key = key
        get(d, key) == d.pairs[CHOOSE i \in 1..Len(d.pairs) : d.pairs[i].key = key].val
    IN  PyDict([i \in 1..Len(a.pairs) |->
                   IF has(b, a.pairs[i].key)
                   THEN [key |-> a.pairs[i].key, val |-> get(b, a.pairs[i].key)]
                   ELSE a.pairs[i]]
               \o SelectSeq(b.pairs, LAMBDA pair : ~has(a, pair.key)))

\* Defaults that ask for pretty printing whatever minify says.
lxml_defaults_pretty(minify) ==
    PyDict(<< [key |-> PyStr("xml_declaration"), val |-> PyBool(~minify)],
              [key |-> PyStr("pretty_print"), val |-> PyBool(TRUE)],
              [key |-> PyStr("encoding"), val |-> PyStr("UTF-8")] >>)

\* save's local lxml_defaults.
lxml_defaults(minify) ==
    PyDict(<< [key |-> PyStr("xml_declaration"), val |-> PyBool(~minify)],
              [key |-> PyStr("pretty_print"), val |-> PyBool(~minify)],
              [key |-> PyStr("encoding"), val |-> PyStr("UTF-8")] >>)

\* Where save writes: a file object's raw byte stream, or the filename as
\* given.
destination(file_or_filename) ==
    IF file_or_filename.k = "TextIO"
    THEN [k |-> "FileIO", name |-> file_or_filename.name]
    ELSE file_or_filename

\* ORI_A.save after self.to_xml("ORI-A") gave xml_ (or raised): what reaches
\* lxml.  tree is the element ElementTree wraps, indent the space argument of
\* ET.indent when that call is made (None when it is not), kwargs the
\* keyword arguments of tree.write.  A to_xml that raises ends save.
save_from(xml_, file_or_filename, minify, lxml_kwargs) ==
    IF xml_ = ValueError THEN ValueError
    ELSE [to     |-> destination(file_or_filename),
          tree   |-> xml_,
          indent |-> IF ~minify THEN PyStr("    ") ELSE None,
          kwargs |-> dict_or(lxml_defaults(minify), lxml_kwargs)]

\* ORI_A.save(self, file_or_filename, minify, lxml_kwargs)
save(obj, file_or_filename, minify, lxml_kwargs) ==
    save_from(ORI_A_to_xml(obj, "ORI-A"), file_or_filename, minify, lxml_kwargs)

----------------------------------------------------------------------------
(* The caller: construction, attribute assignment, serialization.          *)

\* The dummy values a caller fills fields with, two per type.
Seeds == {1, 2}

RECURSIVE dummy(_, _)

\* cls(**required_args): every field without a default gets an argument,
\* every other field keeps its default None.
construct(cls, seed) ==
    LET fs == dataclasses_fields(cls)
    IN  PyObj(cls,
              [n \in {fs[i].name : i \in 1..Len(fs)} |->
                  LET f == fs[CHOOSE i \in 1..Len(fs) : fs[i].name = n]
                  IN  IF f.required THEN dummy(f.type, seed) ELSE None])

\* A value of the given annotated type.
dummy(type, seed) ==
    CASE type = "str"  -> IF seed = 0 THEN NUL ELSE PyStr("test" \o ToString(seed))
      [] type = "int"  -> PyInt(seed)
      [] type = "bool" -> PyBool(seed = 1)
      [] type \in {"XmlDate", "XmlDateTime", "XmlTime"} ->
            PyXml(type, IF type = "XmlTime" THEN "03:02:0" \o ToString(seed)
                        ELSE IF type = "XmlDate" THEN "2017-10-2" \o ToString(seed)
                        ELSE "2017-10-22T03:02:0" \o ToString(seed))
      [] type \in Enums ->
            PyEnum(type, members(type)[((seed - 1) % Len(members(type))) + 1].name)
      [] type \in Classes -> construct(type, seed)

\* The sequences of length lo..hi over the set S.
SeqsOf(S, lo, hi) == UNION {[1..n -> S] : n \in lo..hi}

\* The values a caller assigns to a field, following its annotation: None,
\* one value of the field's type (any member, for an Enum) and, where the
\* annotation allows list[...], a list of 0..MaxLen such values.
assignable(f) ==
    LET one == {dummy(f.type, s) : s \in Seeds}
        any == IF f.type \in Enums
               THEN {PyEnum(f.type, members(f.type)[i].name) :
                        i \in 1..Len(members(f.type))}
               ELSE {}
        many == IF f.repeatable
                THEN {PyList(items) : items \in SeqsOf(one, 0, MaxLen)}
                ELSE {}
    IN  {None} \cup one \cup any \cup many

\* cls(**all_args): every field gets an argument, one value of its type.
construct_full(cls, seed) ==
    LET fs == dataclasses_fields(cls)
    IN  PyObj(cls,
              [n \in {fs[i].name : i \in 1..Len(fs)} |->
                  dummy(fs[CHOOSE i \in 1..Len(fs) : fs[i].name = n].type, seed)])

\* No thread was started.
NoThreads ==
    /\ heap = <<>>
    /\ stack = <<>>
    /\ tpc = <<>>
    /\ ret = <<>>
    /\ arg = <<>>
    /\ ncalls = <<>>

Init ==
    /\ self \in {construct(cls, 1) : cls \in Classes}
               \cup {construct_full(cls, 1) : cls \in Classes}
    /\ nset = 0
    /\ pc = "built"
    /\ root = None
    /\ fields = <<>>
    /\ xml = None
    /\ written = None
    /\ NoThreads

\* setattr(self, name, value) by the caller, before serializing.
Setattr ==
    /\ pc = "built"
    /\ nset < MaxSetattr
    /\ \E i \in 1..Len(dataclasses_fields(self.cls)) :
          LET f == dataclasses_fields(self.cls)[i]
          IN  \E v \in assignable(f) :
                 self' = [self EXCEPT !.attrs[f.name] = v]
    /\ nset' = nset + 1
    /\ UNCHANGED <<pc, root, fields, xml, written>>
    /\ UNCHANGED tvars

\* The tags a caller serializes under: the document record under "ORI-A"
\* (as save does) or "ORI_A" (as the test does), any other record under a
\* tag of the caller's.
Tags(cls) == IF cls = "ORI_A" THEN {"ORI-A", "ORI_A"} ELSE {"root"}

\* xml = self.to_xml(root), Serializable's method.
ToXml ==
    /\ pc = "built"
    /\ \E t \in Tags(self.cls) :
          /\ root' = PyStr(t)
          /\ xml' = to_xml(self, t)
    /\ fields' = self_ORI_A_ordered_fields(self)
    /\ pc' = "done"
    /\ self' = self_after_to_xml(self)
    /\ UNCHANGED <<nset, written>>
    /\ UNCHANGED tvars

Next == Setattr \/ ToXml

Spec == Init /\ [][Next]_vars

\* Values a caller can assign that no annotation of the field admits, the
\* dataclasses checking none: a dict, a UUID (as the test gives an ID field),
\* a list nested in a list, a list holding None, a str with a control
\* character, a value of the field's type built around such a str, and lists
\* mixing these.
unchecked(f) ==
    LET dict == PyDict(<< [key |-> PyStr("a"), val |-> PyInt(1)] >>)
        uuid == PyUUID("12345678-1234-5678-1234-567812345678")
    IN  { dict, uuid, NUL, dummy(f.type, 0),
          PyList(<< PyList(<< dummy(f.type, 1) >>) >>),
          PyList(<< None >>),
          PyList(<< dict, uuid >>),
          PyList(<< dummy(f.type, 1), dummy(f.type, 0) >>),
          PyList(<< dict, NUL >>) }

\* setattr(self, name, value) with a value outside the field's annotation.
SetattrUnchecked ==
    /\ pc = "built"
    /\ nset < MaxSetattr
    /\ \E i \in 1..Len(dataclasses_fields(self.cls)) :
          LET f == dataclasses_fields(self.cls)[i]
          IN  \E v \in unchecked(f) :
                 self' = [self EXCEPT !.attrs[f.name] = v]
    /\ nset' = nset + 1
    /\ UNCHANGED <<pc, root, fields, xml, written>>
    /\ UNCHANGED tvars

NextUnchecked == Setattr \/ SetattrUnchecked \/ ToXml

\* A caller that does not keep to the annotations.
SpecUnchecked == Init /\ [][NextUnchecked]_vars

\* cls(None, ..., None): a record whose fields are all None, the dataclass
\* checking no argument.
construct_None(cls) ==
    PyObj(cls, [n \in {dataclasses_fields(cls)[i].name :
                          i \in 1..Len(dataclasses_fields(cls))} |-> None])

\* Values at the edge of the absence check: an empty list, lists with None
\* as an item, and for a field of a record type a record without any value,
\* alone and in lists.
sparse(f) ==
    {PyList(<<>>), PyList(<< None >>), PyList(<< None, dummy(f.type, 1) >>)}
        \cup (IF f.type \in Classes
              THEN {construct_None(f.type),
                    PyList(<< construct_None(f.type), construct_None(f.type) >>),
                    PyList(<< construct_None(f.type), dummy(f.type, 1) >>)}
              ELSE {})

\* setattr(self, name, value) with such a value.
SetattrSparse ==
    /\ pc = "built"
    /\ nset < MaxSetattr
    /\ \E i \in 1..Len(dataclasses_fields(self.cls)) :
          LET f == dataclasses_fields(self.cls)[i]
          IN  \E v \in sparse(f) :
                 self' = [self EXCEPT !.attrs[f.name] = v]
    /\ nset' = nset + 1
    /\ UNCHANGED <<pc, root, fields, xml, written>>
    /\ UNCHANGED tvars

NextSparse == SetattrSparse \/ ToXml

\* A caller that assigns empty lists, lists with None and empty records.
SpecSparse == Init /\ [][NextSparse]_vars

\* The classes with a field of their own type, and that field.
SelfTyped == {"VergaderingGegevens", "AgendapuntGegevens"}
SelfField(cls) ==
    IF cls = "VergaderingGegevens" THEN "heeftAlsDeelvergadering"
    ELSE "heeftAlsSubagendapunt"

\* The test's class_dummy_map: the value for a field of a plain type, and the
\* records that end the recursion on a self-typed field.
class_dummy_map(type) ==
    CASE type = "int"  -> PyInt(1)
      [] type = "str"  -> PyStr("test")
      [] type = "bool" -> PyStr("true")
      [] type = "XmlDate" -> PyStr("2017-10-22")
      [] type = "XmlDateTime" -> PyStr("2017-10-22T03:02:01")
      [] type = "XmlTime" -> PyStr("03:02:01")
      [] type = "VergaderingGegevens" ->
            [construct("VergaderingGegevens", 1) EXCEPT
                !.attrs["naam"] = PyStr("test"),
                !.attrs["datum"] = PyStr("2017-10-22")]
      [] type = "AgendapuntGegevens" ->
            [construct("AgendapuntGegevens", 1) EXCEPT
                !.attrs["ID"] = PyStr("test"),
                !.attrs["naam"] = PyStr("test")]

\* The fields annotated with a union of two types that is not a list: the
\* test picks one of the types at random.
RandomlyTyped == {"aanvang", "einde"}

\* The field names whose lower case ends with "volgnummer".
EndsWithVolgnummer == {"geplandVolgnummer", "volgnummer"}
Picks == [RandomlyTyped -> {"int", "XmlTime"}]

\* The test's _init_obj(cls): an instance with a dummy value for every
\* field.  picks are the outcomes of randint for the randomly typed fields.
RECURSIVE _init_obj(_, _)
_init_obj(cls, picks) ==
    LET fs == dataclasses_fields(cls)
        arg_for(f) ==
            LET field_type == IF cls = "TijdsaanduidingGegevens"
                                 /\ f.name \in RandomlyTyped
                              THEN picks[f.name] ELSE f.type
            IN  IF field_type = cls THEN class_dummy_map(field_type)
                ELSE IF field_type \in Classes THEN _init_obj(field_type, picks)
                ELSE IF field_type \in Enums
                     THEN PyStr(members(field_type)[1].value)
                ELSE IF f.name = "ID"
                     THEN PyUUID("12345678-1234-5678-1234-567812345678")
                ELSE IF f.name \in EndsWithVolgnummer
                     THEN PyStr("1b")
                ELSE IF f.repeatable
                     THEN PyList(<< class_dummy_map(field_type),
                                    class_dummy_map(field_type) >>)
                ELSE class_dummy_map(field_type)
    IN  PyObj(cls,
              [n \in {fs[i].name : i \in 1..Len(fs)} |->
                  arg_for(fs[CHOOSE i \in 1..Len(fs) : fs[i].name = n])])

\* A caller holding a document record.
InitDoc ==
    /\ self \in {construct("ORI_A", 1), construct_full("ORI_A", 1)}
    /\ nset = 0
    /\ pc = "built"
    /\ root = None
    /\ fields = <<>>
    /\ xml = None
    /\ written = None
    /\ NoThreads

\* xml = self.to_xml(root) on an ORI_A instance: ORI_A's override.
ORI_A_ToXml ==
    /\ pc = "built"
    /\ self.cls = "ORI_A"
    /\ \E t \in Tags(self.cls) :
          /\ root' = PyStr(t)
          /\ xml' = ORI_A_to_xml(self, t)
    /\ fields' = self_ORI_A_ordered_fields(self)
    /\ pc' = "done"
    /\ self' = self_after_to_xml(self)
    /\ UNCHANGED <<nset, written>>
    /\ UNCHANGED tvars

NextDoc == Setattr \/ ORI_A_ToXml

SpecDoc == InitDoc /\ [][NextDoc]_vars

\* The calls of save a caller makes: to a filename with the default
\* lxml_kwargs {}, minified or not; to an open text file with lxml_kwargs
\* that override a default or add an argument save does not set.
SaveCalls ==
    { [file_or_filename |-> PyStr("/tmp/t.xml"), minify |-> FALSE,
       lxml_kwargs |-> PyDict(<<>>)],
      [file_or_filename |-> PyStr("/tmp/t.xml"), minify |-> TRUE,
       lxml_kwargs |-> PyDict(<<>>)],
      [file_or_filename |-> [k |-> "TextIO", name |-> "/tmp/t.xml"],
       minify |-> FALSE,
       lxml_kwargs |-> PyDict(<< [key |-> PyStr("pretty_print"),
                                  val |-> PyBool(FALSE)] >>)],
      [file_or_filename |-> [k |-> "TextIO", name |-> "/tmp/t.xml"],
       minify |-> TRUE,
       lxml_kwargs |-> PyDict(<< [key |-> PyStr("encoding"), val |-> PyStr("ascii")],
                                 [key |-> PyStr("standalone"),
                                  val |-> PyBool(TRUE)] >>)] }

\* self.save(file_or_filename, minify, lxml_kwargs) on a document record.
\* root and xml are save's own: the tag it passes to to_xml and the element
\* it gets back.
Save ==
    /\ pc = "built"
    /\ self.cls = "ORI_A"
    /\ \E call \in SaveCalls :
          LET out == save(self, call.file_or_filename, call.minify,
                          call.lxml_kwargs)
          IN  /\ written' = [file_or_filename |-> call.file_or_filename,
                             minify |-> call.minify,
                             lxml_kwargs |-> call.lxml_kwargs,
                             out |-> out]
              /\ xml' = IF out = ValueError THEN ValueError ELSE out.tree
    /\ root' = PyStr("ORI-A")
    /\ fields' = self_ORI_A_ordered_fields(self)
    /\ pc' = "saved"
    /\ self' = self_after_to_xml(self)
    /\ UNCHANGED nset
    /\ UNCHANGED tvars

NextSave == Setattr \/ Save

\* A caller holding a document record and saving it.
SpecSave == InitDoc /\ [][NextSave]_vars

\* A caller using either method: the generic one on any record, ORI_A's on
\* a document record.
NextCalls == Setattr \/ ToXml \/ ORI_A_ToXml

SpecCalls == Init /\ [][NextCalls]_vars

----------------------------------------------------------------------------
(* Properties of the serializer.                                           *)

Done == pc = "done"

\* The names of a sequence of fields, as a sequence and as a set.
Names(fs) == [i \in 1..Len(fs) |-> fs[i].name]
NameSet(fs) == {fs[i].name : i \in 1..Len(fs)}

\* The position of the field called name in fs.
IndexOf(fs, name) == CHOOSE i \in 1..Len(fs) : fs[i].name = name

\* The children of elem tagged name, in document order.
ChildrenNamed(elem, name) == SelectSeq(elem.children, LAMBDA c : c.tag = name)

\* The tags of the children of elem, in document order.
ChildTags(elem) == [i \in 1..Len(elem.children) |-> elem.children[i].tag]

\* The items of a field value: those of a list, or the value alone.
ItemsOf(v) == IF v.k = "list" THEN v.items ELSE <<v>>

\* C1: the children of the element to_xml returns are tagged with names of
\* the record type's ordered fields only, and appear in that order: a child
\* of an earlier field never follows a child of a later one.
C1_ChildrenInFieldOrder ==
    Done =>
        LET of == _ORI_A_ordered_fields(self.cls)
            ch == xml.children
        IN  /\ \A i \in 1..Len(ch) : ch[i].tag \in NameSet(of)
            /\ \A i, j \in 1..Len(ch) :
                  i < j => IndexOf(of, ch[i].tag) <= IndexOf(of, ch[j].tag)

\* C1's case: a type whose ordered fields differ from the declared ones,
\* serialized with children of at least three different fields.
C1_Witness ==
    /\ Done
    /\ Names(_ORI_A_ordered_fields(self.cls)) # Names(dataclasses_fields(self.cls))
    /\ Cardinality({xml.children[i].tag : i \in 1..Len(xml.children)}) >= 3

\* C2: a field holding None has no child element named after it.
C2_AbsentOmitted ==
    Done =>
        \A n \in NameSet(dataclasses_fields(self.cls)) :
            getattr(self, n) = None => ChildrenNamed(xml, n) = <<>>

\* C2's case: a serialized record with an absent field next to present ones.
C2_Witness ==
    /\ Done
    /\ \E n \in NameSet(dataclasses_fields(self.cls)) : getattr(self, n) = None
    /\ xml.children # <<>>

\* The element the serializer owes for one item under a field name: the
\* item's own tree under that name for a record, a childless element with
\* the item's string form as text otherwise.
ElementFor(item, name) ==
    IF isinstance_Serializable(item)
    THEN to_xml(item, name)
    ELSE [Element(name) EXCEPT !.text = PyStr(str(item))]

\* C3: a field holding a list of N >= 1 items has exactly N children named
\* after it, the i-th being the element of the i-th item.
C3_RepetitionFidelity ==
    Done =>
        \A n \in NameSet(dataclasses_fields(self.cls)) :
            LET v  == getattr(self, n)
                ch == ChildrenNamed(xml, n)
            IN  (v.k = "list" /\ Len(v.items) >= 1) =>
                    /\ Len(ch) = Len(v.items)
                    /\ \A i \in 1..Len(ch) : ch[i] = ElementFor(v.items[i], n)

\* C3's case: a serialized field holding a list of two different records.
C3_Witness ==
    /\ Done
    /\ \E n \in NameSet(dataclasses_fields(self.cls)) :
          LET v == getattr(self, n)
          IN  /\ v.k = "list"
              /\ Len(v.items) = 2
              /\ v.items[1] # v.items[2]
              /\ isinstance_Serializable(v.items[1])

\* C4: for every field holding a single value v, serializing the same
\* record with [v] in that field gives the tree that was returned.
C4_SingleEqualsSingleton ==
    Done =>
        \A n \in NameSet(dataclasses_fields(self.cls)) :
            LET v == getattr(self, n)
            IN  v.k \notin {"None", "list"} =>
                    to_xml([self EXCEPT !.attrs[n] = PyList(<<v>>)], root.s) = xml

\* C4's case: a serialized record with a single scalar and a single record.
C4_Witness ==
    /\ Done
    /\ \E n, m \in NameSet(dataclasses_fields(self.cls)) :
          /\ getattr(self, n).k = "str"
          /\ getattr(self, m).k = "obj"

\* C5: the element appended for a nested record is tagged with the field's
\* name, whatever the record's class; two fields holding the same
\* VerwijzingGegevens give subtrees equal up to their root tags.
C5_NestedTagIsFieldName ==
    Done =>
        LET ns == NameSet(dataclasses_fields(self.cls))
        IN  /\ \A i \in 1..Len(xml.children) : xml.children[i].tag \notin Classes
            /\ \A n \in ns :
                  LET v  == getattr(self, n)
                      ch == ChildrenNamed(xml, n)
                  IN  (v # None /\ \A i \in 1..Len(ItemsOf(v)) :
                                      isinstance_Serializable(ItemsOf(v)[i])) =>
                          /\ Len(ch) = Len(ItemsOf(v))
                          /\ \A i \in 1..Len(ch) :
                                /\ ch[i].tag = n
                                /\ [to_xml(ItemsOf(v)[i], ItemsOf(v)[i].cls)
                                       EXCEPT !.tag = n] = ch[i]
            /\ \A n, m \in ns :
                  LET v == getattr(self, n)
                      w == getattr(self, m)
                  IN  (n # m /\ v = w /\ v.k = "obj" /\ v.cls = "VerwijzingGegevens") =>
                          LET a == ChildrenNamed(xml, n)[1]
                              b == ChildrenNamed(xml, m)[1]
                          IN  /\ a.tag = n
                              /\ b.tag = m
                              /\ [a EXCEPT !.tag = m] = b

\* C5's case: one VerwijzingGegevens value serialized under two fields.
C5_Witness ==
    /\ Done
    /\ \E n, m \in NameSet(dataclasses_fields(self.cls)) :
          /\ n # m
          /\ getattr(self, n) = getattr(self, m)
          /\ getattr(self, n).k = "obj"
          /\ getattr(self, n).cls = "VerwijzingGegevens"

\* C6: a field holding an Enum member is emitted as one element whose text
\* is the member's value, the display string.
C6_EnumTextIsValue ==
    Done =>
        \A n \in NameSet(dataclasses_fields(self.cls)) :
            LET v == getattr(self, n)
            IN  v.k = "Enum" =>
                    ChildrenNamed(xml, n) =
                        <<[Element(n) EXCEPT !.text = PyStr(value_of(v))]>>

\* C7: a field holding a bool is emitted as one element whose text is
\* "true" or "false".
C7_BoolTextIsLowercase ==
    Done =>
        \A n \in NameSet(dataclasses_fields(self.cls)) :
            LET v == getattr(self, n)
            IN  v.k = "bool" =>
                    ChildrenNamed(xml, n) =
                        <<[Element(n) EXCEPT
                              !.text = PyStr(IF v.b THEN "true" ELSE "false")]>>

\* s is a permutation of t: same length, and every element of t exactly
\* once in s.
IsPermutation(s, t) ==
    /\ Len(s) = Len(t)
    /\ \A i \in 1..Len(t) : Cardinality({j \in 1..Len(s) : s[j] = t[i]}) = 1
    /\ \A j \in 1..Len(s) : \E i \in 1..Len(t) : s[j] = t[i]

\* C8: the field list to_xml walks is a permutation of the declared fields
\* of the record's class: same length, every declared field exactly once,
\* no other field.
C8_OrderedFieldsPermutation ==
    Done => IsPermutation(fields, dataclasses_fields(self.cls))

\* C8's case: a serialized record of a class that overrides the order.
C8_Witness ==
    /\ Done
    /\ self.cls = "DagelijksBestuurLidmaatschapGegevens"
    /\ fields # dataclasses_fields(self.cls)
    /\ Len(xml.children) = Len(fields)

\* C9: BegripGegevens is walked as (begripLabel, begripCode,
\* verwijzingBegrippenlijst), the declared order with its last two fields
\* swapped, and a fully populated one is serialized in that order.
C9_BegripGegevensOrder ==
    (Done /\ self.cls = "BegripGegevens") =>
        /\ Names(fields) = <<"begripLabel", "begripCode", "verwijzingBegrippenlijst">>
        /\ LET d == dataclasses_fields(self.cls)
           IN  fields = <<d[1], d[3], d[2]>>
        /\ (\A n \in NameSet(fields) : getattr(self, n).k \notin {"None", "list"}) =>
              ChildTags(xml) = <<"begripLabel", "begripCode", "verwijzingBegrippenlijst">>

\* C9's case: a fully populated BegripGegevens, serialized.
C9_Witness ==
    /\ Done
    /\ self.cls = "BegripGegevens"
    /\ \A n \in NameSet(fields) : getattr(self, n).k \notin {"None", "list"}
    /\ Len(xml.children) = 3

\* C10: DagelijksBestuurLidmaatschapGegevens is walked as (ID,
\* datumBeginDagelijksBestuurLidmaatschap,
\* datumEindeDagelijksBestuurLidmaatschap, verwijzingDagelijksBestuur): the
\* first declared field last, every other one a position earlier.
C10_DagelijksBestuurLidmaatschapOrder ==
    (Done /\ self.cls = "DagelijksBestuurLidmaatschapGegevens") =>
        LET d == dataclasses_fields(self.cls)
        IN  /\ Names(fields) = <<"ID", "datumBeginDagelijksBestuurLidmaatschap",
                                 "datumEindeDagelijksBestuurLidmaatschap",
                                 "verwijzingDagelijksBestuur">>
            /\ Len(fields) = Len(d)
            /\ fields[Len(d)] = d[1]
            /\ \A i \in 2..Len(d) : fields[i - 1] = d[i]
            /\ (\A n \in NameSet(d) : getattr(self, n).k \notin {"None", "list"}) =>
                  ChildTags(xml) = Names(fields)

\* C10's case: a fully populated DagelijksBestuurLidmaatschapGegevens,
\* serialized.
C10_Witness ==
    /\ Done
    /\ self.cls = "DagelijksBestuurLidmaatschapGegevens"
    /\ \A n \in NameSet(fields) : getattr(self, n).k \notin {"None", "list"}
    /\ ChildTags(xml)[4] = "verwijzingDagelijksBestuur"

----------------------------------------------------------------------------
(* Properties of the document root (specification SpecDoc).                *)

RECURSIVE Bare(_), AllBare(_, _)

\* Every element of elems[i..] satisfies Bare.
AllBare(elems, i) ==
    i > Len(elems) \/ (Bare(elems[i]) /\ AllBare(elems, i + 1))

\* elem and all its descendants declare no namespace and carry no attribute.
Bare(elem) ==
    /\ elem.attrib = <<>>
    /\ elem.nsmap = <<>>
    /\ AllBare(elem.children, 1)

RECURSIVE Depth(_), MaxDepth(_, _)

\* The largest Depth among elems[i..], 0 if there is none.
MaxDepth(elems, i) ==
    IF i > Len(elems) THEN 0
    ELSE LET d == Depth(elems[i])
             m == MaxDepth(elems, i + 1)
         IN  IF d > m THEN d ELSE m

\* The number of levels of the tree under elem, elem included.
Depth(elem) == 1 + MaxDepth(elem.children, 1)

\* C11: in the tree ORI_A.to_xml returns, the root declares namespaces and
\* carries an attribute, and no descendant at any depth does either.
C11_OnlyRootCarriesMetadata ==
    Done =>
        /\ xml.nsmap # <<>>
        /\ xml.attrib # <<>>
        /\ AllBare(xml.children, 1)

\* C11's case: a document with elements four levels below the root.
C11_Witness ==
    /\ Done
    /\ xml.nsmap # <<>>
    /\ Depth(xml) >= 5

\* C12: the root carries exactly one attribute, schemaLocation in the
\* XML-Schema-instance namespace, valued with the ORI-A namespace URI, a
\* space and the URL of the v1.0.0 ORI-A.xsd, and declares exactly the
\* default namespace and xsi, whatever the record holds.
C12_RootAttributeAndNamespaces ==
    Done =>
        /\ xml.attrib =
              << [name  |-> "{http://www.w3.org/2001/XMLSchema-instance}schemaLocation",
                  value |-> "https://ori-a.nl" \o " " \o
                            "https://github.com/Regionaal-Archief-Rivierenland/ORI-A-XSD/releases/download/v1.0.0/ORI-A.xsd"] >>
        /\ xml.nsmap =
              << [prefix |-> None, uri |-> "https://ori-a.nl"],
                 [prefix |-> PyStr("xsi"),
                  uri |-> "http://www.w3.org/2001/XMLSchema-instance"] >>

\* C12's case: a document whose agendapunt field holds a list of records.
C12_Witness ==
    /\ Done
    /\ Len(xml.attrib) = 1
    /\ getattr(self, "agendapunt").k = "list"
    /\ Len(getattr(self, "agendapunt").items) = 2

\* C13: the element ORI_A.to_xml returns has the caller's tag, and its
\* children are those Serializable.to_xml gives for the same record and tag,
\* in the same order.
C13_AssemblyPreservesContent ==
    Done =>
        /\ xml.tag = root.s
        /\ xml.children = to_xml(self, root.s).children

\* C13's case: a document with several children, under the tag "ORI_A".
C13_Witness ==
    /\ Done
    /\ root.s = "ORI_A"
    /\ Len(xml.children) >= 3
    /\ xml.nsmap # <<>>


\* ---------------------------------------------------------------------
\* to_xml statement by statement, on threads
\* ---------------------------------------------------------------------

Threads == {1, 2}

\* The record trees the threads serialize: a flat record, a record nested
\* three deep, a record under a field-order override, a record with a list,
\* and a record whose serialization raises in a nested call.
Inputs ==
    { construct("NaamGegevens", 1),
      construct("AanwezigeDeelnemerGegevens", 1),
      construct("BegripGegevens", 1),
      [construct("VergaderingGegevens", 1) EXCEPT
          !.attrs["ID"] = PyList([i \in 1..MaxLen |-> dummy("str", i)])],
      construct("NatuurlijkPersoonGegevens", 0) }

\* All threads naming one set of frames, as locals kept in module globals
\* would be.
frames_shared(th) == 1

\* The frames holding a thread's locals (root_elem, fields, field,
\* field_value, val): the thread's own.
frames(th) == th

\* An element identity taken from a cache keyed by tag.
alloc_cached(h, tag) ==
    IF \E id \in 1..Len(h) : h[id].tag = tag
    THEN CHOOSE id \in 1..Len(h) : h[id].tag = tag
    ELSE Len(h) + 1

\* The identity of the object a constructor call makes: a new one.
alloc(h, tag) == Len(h) + 1

\* The heap after ET.Element(tag) / ET.SubElement(_, tag) made object id for
\* thread th.
new(h, id, tag, th) ==
    [i \in 1..(IF id > Len(h) THEN id ELSE Len(h)) |->
        IF i = id THEN [tag |-> tag, text |-> None, children |-> <<>>, by |-> th]
        ELSE h[i]]

\* A reference to an element object.
ElementRef(id) == [k |-> "Element", id |-> id]

\* The heap after parent.extend(child): the children of child are put under
\* parent, child itself is not.
append_child_extending(h, parent, child) ==
    [h EXCEPT ![parent].children = @ \o h[child].children]

\* The heap after parent.append(child) on element objects.
append_child(h, parent, child) ==
    [h EXCEPT ![parent].children = Append(@, child)]

\* The frame a call of obj.to_xml starts in, its root_elem made.
Frame(obj, elem) == [obj |-> obj, elem |-> elem, i |-> 1, j |-> 1]

\* The innermost frame of a thread, and its loop variables.
Top(th) == stack[frames(th)][Len(stack[frames(th)])]
TopFields(th) == self_ORI_A_ordered_fields(Top(th).obj)
TopField(th) == TopFields(th)[Top(th).i]
TopValue(th) == getattr(Top(th).obj, TopField(th).name)
\* field_value taken for its first item only, a list treated as one value.
TopItems_first(th) == SubSeq(listify(TopValue(th)), 1, 1)
TopItems(th) == listify(TopValue(th))
TopVal(th) == TopItems(th)[Top(th).j]

Running(th) == tpc[th] = "running" /\ stack[frames(th)] # <<>>
InField(th) == Running(th) /\ Top(th).i <= Len(TopFields(th))
InItem(th) ==
    /\ InField(th)
    /\ ~is_None(TopValue(th))
    /\ Top(th).j <= Len(TopItems(th))

\* stack with the innermost frame of th replaced.
WithTop(th, frame) ==
    [stack EXCEPT ![frames(th)] = [@ EXCEPT ![Len(@)] = frame]]

InitThreads ==
    /\ arg \in [Threads -> [obj : Inputs, root : {"root"}]]
    /\ heap = <<>>
    /\ stack = [th \in Threads |-> <<>>]
    /\ tpc = [th \in Threads |-> "idle"]
    /\ ret = [th \in Threads |-> None]
    /\ ncalls = [th \in Threads |-> 0]
    /\ self = None
    /\ nset = 0
    /\ pc = "threads"
    /\ root = None
    /\ fields = <<>>
    /\ xml = None
    /\ written = None

\* The thread calls arg.obj.to_xml(arg.root): root_elem = ET.Element(root).
Call(th) ==
    /\ tpc[th] = "idle"
    /\ LET id == alloc(heap, arg[th].root)
       IN  /\ heap' = new(heap, id, arg[th].root, th)
           /\ stack' = [stack EXCEPT ![frames(th)] =
                            Append(@, Frame(arg[th].obj, id))]
    /\ tpc' = [tpc EXCEPT ![th] = "running"]
    /\ ncalls' = [ncalls EXCEPT ![th] = @ + 1]
    /\ UNCHANGED <<ret, arg>>
    /\ UNCHANGED cvars

\* `for field in fields` moves on: the field is None (continue), or
\* `for val in field_value` has run out.
NextField(th) ==
    /\ InField(th)
    /\ ~InItem(th)
    /\ stack' = WithTop(th, [Top(th) EXCEPT !.i = @ + 1, !.j = 1])
    /\ UNCHANGED <<heap, tpc, ret, arg, ncalls>>
    /\ UNCHANGED cvars

\* val is a record: val.to_xml(field_name) is called and makes its root_elem.
Enter(th) ==
    /\ InItem(th)
    /\ isinstance_Serializable(TopVal(th))
    /\ LET id == alloc(heap, TopField(th).name)
       IN  /\ heap' = new(heap, id, TopField(th).name, th)
           /\ stack' = [stack EXCEPT ![frames(th)] =
                            Append(@, Frame(TopVal(th), id))]
    /\ ncalls' = [ncalls EXCEPT ![th] = @ + 1]
    /\ UNCHANGED <<tpc, ret, arg>>
    /\ UNCHANGED cvars

\* val is no record and its text is accepted:
\* ET.SubElement(root_elem, field_name).text = str(val).
Leaf(th) ==
    /\ InItem(th)
    /\ ~isinstance_Serializable(TopVal(th))
    /\ xml_compatible(str(TopVal(th)))
    /\ LET id == alloc(heap, TopField(th).name)
           made == new(heap, id, TopField(th).name, th)
       IN  heap' = append_child([made EXCEPT ![id].text = PyStr(str(TopVal(th)))],
                                Top(th).elem, id)
    /\ stack' = WithTop(th, [Top(th) EXCEPT !.j = @ + 1])
    /\ UNCHANGED <<tpc, ret, arg, ncalls>>
    /\ UNCHANGED cvars

\* val is no record and lxml refuses its text: the sub-element is made and
\* attached, the assignment of .text raises ValueError, and with no handler
\* anywhere every frame of the thread is left.
Raise(th) ==
    /\ InItem(th)
    /\ ~isinstance_Serializable(TopVal(th))
    /\ ~xml_compatible(str(TopVal(th)))
    /\ LET id == alloc(heap, TopField(th).name)
       IN  heap' = append_child(new(heap, id, TopField(th).name, th),
                                Top(th).elem, id)
    /\ stack' = [stack EXCEPT ![frames(th)] = <<>>]
    /\ tpc' = [tpc EXCEPT ![th] = "raised"]
    /\ ret' = [ret EXCEPT ![th] = ValueError]
    /\ UNCHANGED <<arg, ncalls>>
    /\ UNCHANGED cvars

\* `return root_elem`: to the thread's caller from the outermost frame, to
\* root_elem.append(...) of the calling frame from a nested one.
Return(th) ==
    /\ Running(th)
    /\ ~InField(th)
    /\ LET rest == SubSeq(stack[frames(th)], 1, Len(stack[frames(th)]) - 1)
       IN  IF rest = <<>>
           THEN /\ stack' = [stack EXCEPT ![frames(th)] = <<>>]
                /\ tpc' = [tpc EXCEPT ![th] = "returned"]
                /\ ret' = [ret EXCEPT ![th] = ElementRef(Top(th).elem)]
                /\ UNCHANGED heap
           ELSE /\ heap' = append_child(heap, rest[Len(rest)].elem, Top(th).elem)
                /\ stack' = [stack EXCEPT ![frames(th)] =
                                 [rest EXCEPT ![Len(rest)].j = @ + 1]]
                /\ UNCHANGED <<tpc, ret>>
    /\ UNCHANGED <<arg, ncalls>>
    /\ UNCHANGED cvars

NextThreads ==
    \E th \in Threads :
        \/ Call(th)
        \/ NextField(th)
        \/ Enter(th)
        \/ Leaf(th)
        \/ Raise(th)
        \/ Return(th)

\* Threads run their statements in any order; each call is made once.
SpecThreads == InitThreads /\ [][NextThreads]_vars

\* A record of a self-typed class with parts below it, level by level: the
\* self-typed field of a new record holds the record built so far, alone or
\* first or last in a list of MaxLen among records without parts.  The
\* innermost record is one that serializes or one that raises.
RECURSIVE Nested(_, _)
Nested(cls, k) ==
    IF k = 0 THEN {construct(cls, s) : s \in {0, 1}}
    ELSE UNION {
            {[construct(cls, 1) EXCEPT !.attrs[SelfField(cls)] = v] :
                v \in {part} \cup
                      {PyList([i \in 1..MaxLen |-> IF i = p THEN part
                                                   ELSE construct(cls, 2)]) :
                          p \in {1, MaxLen}}} :
            part \in Nested(cls, k - 1)}

\* One thread serializes a meeting or an agenda item with up to MaxNest
\* levels of parts; no other thread runs.
InitNested ==
    /\ \E obj \in UNION {Nested(cls, k) : cls \in SelfTyped, k \in 0..MaxNest} :
          arg = [th \in Threads |-> [obj |-> obj, root |-> "root"]]
    /\ heap = <<>>
    /\ stack = [th \in Threads |-> <<>>]
    /\ tpc = [th \in Threads |-> IF th = 1 THEN "idle" ELSE "unused"]
    /\ ret = [th \in Threads |-> None]
    /\ ncalls = [th \in Threads |-> 0]
    /\ self = None
    /\ nset = 0
    /\ pc = "threads"
    /\ root = None
    /\ fields = <<>>
    /\ xml = None
    /\ written = None

SpecNested == InitNested /\ [][NextThreads]_vars

\* The same, with the interpreter going on executing a thread that has a
\* statement to execute.
SpecNestedFair == InitNested /\ [][NextThreads]_vars /\ WF_vars(NextThreads)

\* ---------------------------------------------------------------------
\* Errors
\* ---------------------------------------------------------------------

\* The call raised: no element was returned.
Raised == xml = ValueError

\* An item whose kind is none of scalar, enumerated or nested record: a
\* dict, an arbitrary object, a list that is itself an item.
Unmappable(item) == item.k \in {"dict", "UUID", "list"}

\* The items of the fields of obj that are not None, by field name.
FieldItems(obj, name) ==
    IF getattr(obj, name) = None THEN <<>> ELSE ItemsOf(getattr(obj, name))

\* Some record of the tree has a str item with a control character: the one
\* text lxml refuses.
RECURSIVE HasControlChar(_)
HasControlChar(obj) ==
    \E n \in NameSet(dataclasses_fields(obj.cls)) :
        \E i \in 1..Len(FieldItems(obj, n)) :
            LET item == FieldItems(obj, n)[i]
            IN  \/ item = NUL
                \/ item.k = "obj" /\ HasControlChar(item)

\* C14 as stated: once to_xml has met a field item that is a dict, an
\* arbitrary object or a list nested in a list, the call has raised and
\* returned no element tree.
C14_RaisesOnUnmappable ==
    (Done /\ \E n \in NameSet(dataclasses_fields(self.cls)) :
                \E i \in 1..Len(FieldItems(self, n)) :
                    Unmappable(FieldItems(self, n)[i]))
        => Raised

\* C14 amended: an item that is a dict, an arbitrary object or a nested list
\* does not make to_xml raise.  The call raises only when the tree holds a
\* text with a control character, and when it returns, the item is the i-th
\* child named after its field, a leaf whose text is str(item).
C14_UnmappableIsStringified ==
    Done =>
        \A n \in NameSet(dataclasses_fields(self.cls)) :
            \A i \in 1..Len(FieldItems(self, n)) :
                LET item == FieldItems(self, n)[i]
                IN  Unmappable(item) =>
                        /\ Raised => HasControlChar(self)
                        /\ ~Raised =>
                               /\ Len(ChildrenNamed(xml, n)) = Len(FieldItems(self, n))
                               /\ ChildrenNamed(xml, n)[i] =
                                      [Element(n) EXCEPT !.text = PyStr(str(item))]

\* A returned tree with the child of a dict, of a UUID and of a nested list.
C14_Witness ==
    /\ Done
    /\ ~Raised
    /\ \E n \in NameSet(dataclasses_fields(self.cls)) :
           /\ Len(FieldItems(self, n)) = 2
           /\ FieldItems(self, n)[1].k = "dict"
           /\ FieldItems(self, n)[2].k = "UUID"
           /\ ChildrenNamed(xml, n)[1].text = PyStr("{'a': 1}")
           /\ ChildrenNamed(xml, n)[2].text =
                  PyStr("12345678-1234-5678-1234-567812345678")

\* C15: to_xml validates no presence.  When a field declared without a
\* default (a required one) is None, the call still returns an element under
\* the root tag, and that element has no child named after the field.
C15_NoPresenceValidation ==
    Done =>
        \A i \in 1..Len(dataclasses_fields(self.cls)) :
            LET f == dataclasses_fields(self.cls)[i]
            IN  (f.required /\ getattr(self, f.name) = None) =>
                    /\ ~Raised
                    /\ xml.tag = root.s
                    /\ ChildrenNamed(xml, f.name) = <<>>

\* A serialized VergaderingGegevens whose required naam is None while its
\* other required field was emitted.
C15_Witness ==
    /\ Done
    /\ self.cls = "VergaderingGegevens"
    /\ getattr(self, "naam") = None
    /\ ~Raised
    /\ Len(ChildrenNamed(xml, "datum")) = 1
    /\ ChildrenNamed(xml, "naam") = <<>>

\* elem holds the elements of every item of every field of obj that is not
\* None, and so, level by level, for every record nested in obj.
RECURSIVE Complete(_, _)
Complete(obj, elem) ==
    \A n \in NameSet(dataclasses_fields(obj.cls)) :
        /\ Len(ChildrenNamed(elem, n)) = Len(FieldItems(obj, n))
        /\ \A i \in 1..Len(FieldItems(obj, n)) :
               LET item == FieldItems(obj, n)[i]
                   child == ChildrenNamed(elem, n)[i]
               IN  IF item.k = "obj"
                   THEN Complete(item, child)
                   ELSE child.children = <<>> /\ child.text # None

\* C16: all or nothing.  When a record at any depth of the tree cannot be
\* serialized the outermost call raises and returns no element; when the
\* call returns, the tree holds the elements of every item of every field
\* that is not None, for every record of the input tree.
C16_AllOrNothing ==
    Done =>
        /\ HasControlChar(self) => Raised
        /\ ~Raised => xml.tag = root.s /\ Complete(self, xml)

\* The outermost call raised for a control character two records down.
C16_Witness ==
    /\ Done
    /\ Raised
    /\ \E n \in NameSet(dataclasses_fields(self.cls)) :
           \E i \in 1..Len(FieldItems(self, n)) :
               LET item == FieldItems(self, n)[i]
               IN  /\ item.k = "obj"
                   /\ \E n2 \in NameSet(dataclasses_fields(item.cls)) :
                          \E i2 \in 1..Len(FieldItems(item, n2)) :
                              /\ FieldItems(item, n2)[i2].k = "obj"
                              /\ HasControlChar(FieldItems(item, n2)[i2])

\* ---------------------------------------------------------------------
\* Effects
\* ---------------------------------------------------------------------

\* C17: serialization is read-only on its input.  Across a call of to_xml,
\* the generic one or ORI_A's, the instance is the same value after as
\* before: every field of it and of every nested record, a single value
\* still single, a sequence with the same items in the same order.
C17_ReadOnly ==
    [][(pc = "built" /\ pc' = "done") => self' = self]_vars

\* After a call that listified a single value and walked a two-item
\* sequence: the single value is still single, the sequence still has its
\* two different items.
C17_Witness ==
    /\ Done
    /\ ~Raised
    /\ \E n \in NameSet(dataclasses_fields(self.cls)) :
           /\ getattr(self, n) # None
           /\ getattr(self, n).k # "list"
           /\ Len(ChildrenNamed(xml, n)) = 1
    /\ \E n \in NameSet(dataclasses_fields(self.cls)) :
           /\ getattr(self, n) # None
           /\ getattr(self, n).k = "list"
           /\ Len(getattr(self, n).items) = 2
           /\ getattr(self, n).items[1] # getattr(self, n).items[2]
           /\ xml.nsmap # <<>>

\* ---------------------------------------------------------------------
\* Repeated and concurrent calls
\* ---------------------------------------------------------------------

\* The element objects reachable from those of S through children.
RECURSIVE Reachable(_, _)
Reachable(h, S) ==
    LET T == S \cup UNION {{h[id].children[k] : k \in 1..Len(h[id].children)} : id \in S}
    IN  IF T = S THEN S ELSE Reachable(h, T)

\* The tree under element object id, as a value.
RECURSIVE Tree(_, _)
Tree(h, id) ==
    [tag |-> h[id].tag, text |-> h[id].text, attrib |-> <<>>, nsmap |-> <<>>,
     children |-> [k \in 1..Len(h[id].children) |-> Tree(h, h[id].children[k])]]

Returned(th) == tpc[th] = "returned"

\* The element objects of the tree a thread's call returned.
ElementsOf(th) == Reachable(heap, {ret[th].id})

\* C18: determinism.  Two invocations of to_xml on the same record tree with
\* the same root tag, made one after the other or overlapping, return trees
\* that are equal node by node (tag, text, attributes, order of children),
\* and no element object belongs to both results.
C18_Deterministic ==
    \A t1 \in Threads : \A t2 \in Threads \ {t1} :
        (Returned(t1) /\ Returned(t2) /\ arg[t1] = arg[t2]) =>
            /\ ElementsOf(t1) \cap ElementsOf(t2) = {}
            /\ Tree(heap, ret[t1].id) = Tree(heap, ret[t2].id)

\* Both invocations returned for the same nested record tree.
C18_Witness ==
    /\ Returned(1) /\ Returned(2)
    /\ arg[1] = arg[2]
    /\ arg[1].obj.cls = "AanwezigeDeelnemerGegevens"
    /\ Cardinality(ElementsOf(1)) = 5
    /\ Cardinality(ElementsOf(2)) = 5

\* C19: concurrent safety.  Under every interleaving of the statements of
\* two threads, a thread's call ends as it does when run alone: it raises
\* when the call alone raises, and otherwise returns exactly the tree the
\* call alone returns; and every element of a returned tree was built by
\* the thread it was returned to.
C19_ConcurrentSafety ==
    \A th \in Threads :
        LET alone == to_xml(arg[th].obj, arg[th].root)
        IN  /\ tpc[th] = "raised" => alone = ValueError
            /\ Returned(th) =>
                   /\ \A id \in ElementsOf(th) : heap[id].by = th
                   /\ alone # ValueError
                   /\ Tree(heap, ret[th].id) = alone

\* Both threads returned trees of different records, with the constructor
\* calls of one falling between those of the other.
C19_Witness ==
    /\ Returned(1) /\ Returned(2)
    /\ arg[1] # arg[2]
    /\ \E a \in ElementsOf(1) : \E b \in ElementsOf(2) : \E c \in ElementsOf(1) :
           a < b /\ b < c
    /\ Cardinality(ElementsOf(1) \cup ElementsOf(2)) >= 8

\* ---------------------------------------------------------------------
\* The ordered field list and the instance
\* ---------------------------------------------------------------------

\* Instances of a class with different field values: only the required
\* fields, every field, no field at all, every repeatable field a sequence.
Instances(cls) ==
    {construct(cls, s) : s \in Seeds}
        \cup {construct_full(cls, s) : s \in Seeds}
        \cup {PyObj(cls, [n \in NameSet(dataclasses_fields(cls)) |-> None])}
        \cup {PyObj(cls, [n \in NameSet(dataclasses_fields(cls)) |->
                  LET f == dataclasses_fields(cls)[IndexOf(dataclasses_fields(cls), n)]
                  IN  IF f.repeatable
                      THEN PyList([i \in 1..MaxLen |-> dummy(f.type, i)])
                      ELSE dummy(f.type, 1)])}

\* C20: the ordered field list depends only on the record type.  The list
\* to_xml used for the instance it serialized is the list the operation gives
\* for every other instance of the same type, whatever its field values, and
\* the call that obtained it left the instance as it was.
C20_OrderDependsOnTypeOnly ==
    [][(pc = "built" /\ pc' = "done") =>
          /\ \A other \in Instances(self.cls) :
                 self_ORI_A_ordered_fields(other) = fields'
          /\ self_ORI_A_ordered_fields(self') = fields'
          /\ self' = self]_vars

\* A serialized instance with an absent field before a populated one in
\* declaration order, holding a single value and a sequence.
C20_Witness ==
    /\ Done
    /\ \E i \in 1..Len(fields) : \E j \in 1..Len(fields) :
           /\ i < j
           /\ getattr(self, fields[i].name) = None
           /\ getattr(self, fields[j].name) # None
           /\ getattr(self, fields[j].name).k = "list"
           /\ Len(getattr(self, fields[j].name).items) = MaxLen
    /\ \E i \in 1..Len(fields) :
           /\ getattr(self, fields[i].name) # None
           /\ getattr(self, fields[i].name).k # "list"

\* ---------------------------------------------------------------------
\* Scenarios
\* ---------------------------------------------------------------------

\* obj has a value for each field named in names and None for every other.
HoldsOnly(obj, names) ==
    \A n \in NameSet(dataclasses_fields(obj.cls)) :
        (getattr(obj, n) # None) <=> (n \in names)

\* The document of the round-trip scenario: one VergaderingGegevens(naam,
\* datum), one AgendapuntGegevens(ID, naam), nothing else.
RoundTripDocument ==
    /\ self.cls = "ORI_A"
    /\ HoldsOnly(self, {"vergadering", "agendapunt"})
    /\ getattr(self, "vergadering").k = "obj"
    /\ HoldsOnly(getattr(self, "vergadering"), {"naam", "datum"})
    /\ getattr(getattr(self, "vergadering"), "naam").k = "str"
    /\ getattr(getattr(self, "vergadering"), "datum").k = "Xml"
    /\ getattr(self, "agendapunt").k = "obj"
    /\ HoldsOnly(getattr(self, "agendapunt"), {"ID", "naam"})

\* C21: the round-trip scenario.  ORI_A(vergadering=VergaderingGegevens(naam,
\* datum), agendapunt=AgendapuntGegevens(ID, naam)) serialized under tag t
\* gives a root tagged t with exactly two children, vergadering then
\* agendapunt, neither with an attribute; vergadering has exactly two
\* children, naam with the text of naam and then datum with the text of the
\* date, both leaves.
C21_RoundTripScenario ==
    (Done /\ RoundTripDocument) =>
        /\ ~Raised
        /\ xml.tag = root.s
        /\ ChildTags(xml) = << "vergadering", "agendapunt" >>
        /\ xml.children[1].attrib = <<>>
        /\ xml.children[2].attrib = <<>>
        /\ xml.children[1].text = None
        /\ ChildTags(xml.children[1]) = << "naam", "datum" >>
        /\ xml.children[1].children[1].text =
              PyStr(getattr(getattr(self, "vergadering"), "naam").s)
        /\ xml.children[1].children[2].text =
              PyStr(getattr(getattr(self, "vergadering"), "datum").iso)
        /\ xml.children[1].children[1].children = <<>>
        /\ xml.children[1].children[2].children = <<>>

\* The scenario's document serialized under the tag the test uses, which is
\* not the tag save uses.
C21_Witness ==
    /\ Done
    /\ RoundTripDocument
    /\ root.s = "ORI_A"
    /\ xml.tag = "ORI_A"
    /\ Len(xml.children) = 2
    /\ xml.children[1].children[2].text = PyStr("2017-10-21")

\* ---------------------------------------------------------------------
\* Self-nesting
\* ---------------------------------------------------------------------

Max(a, b) == IF a >= b THEN a ELSE b

\* The number of levels of parts below a record, through its self-typed
\* field.
RECURSIVE NestDepth(_), MaxNestDepth(_, _)
MaxNestDepth(items, i) ==
    IF i > Len(items) THEN 0
    ELSE Max(1 + NestDepth(items[i]), MaxNestDepth(items, i + 1))
NestDepth(obj) == MaxNestDepth(FieldItems(obj, SelfField(obj.cls)), 1)

\* The number of levels of elements tagged name nested directly in one
\* another below elem.
RECURSIVE TagDepth(_, _), MaxTagDepth(_, _, _)
MaxTagDepth(cs, name, i) ==
    IF i > Len(cs) THEN 0
    ELSE Max(1 + TagDepth(cs[i], name), MaxTagDepth(cs, name, i + 1))
TagDepth(elem, name) == MaxTagDepth(ChildrenNamed(elem, name), name, 1)

\* Each part of obj is, in order, a child of elem tagged with the self-typed
\* field's name that carries the part's own naam, and so on for the parts of
\* the part.
RECURSIVE PartsNested(_, _)
PartsNested(obj, elem) ==
    LET name == SelfField(obj.cls)
        parts == FieldItems(obj, name)
        below == ChildrenNamed(elem, name)
    IN  /\ Len(below) = Len(parts)
        /\ \A i \in 1..Len(parts) :
              /\ Len(ChildrenNamed(below[i], "naam")) = 1
              /\ ChildrenNamed(below[i], "naam")[1].text =
                    PyStr(getattr(parts[i], "naam").s)
              /\ PartsNested(parts[i], below[i])

\* The record the one thread serializes and the tree its call returned.
NestedObj == arg[1].obj
NestedXml == Tree(heap, ret[1].id)

\* C22: self-nesting.  A meeting whose heeftAlsDeelvergadering holds
\* sub-meetings k levels deep serializes to a tree where each sub-meeting is
\* a child tagged heeftAlsDeelvergadering of its parent meeting's element,
\* nested exactly k levels; likewise an agenda item through
\* heeftAlsSubagendapunt.
C22_SelfNesting ==
    Returned(1) =>
        /\ PartsNested(NestedObj, NestedXml)
        /\ TagDepth(NestedXml, SelfField(NestedObj.cls)) = NestDepth(NestedObj)

\* A serialized meeting with sub-meetings MaxNest levels deep, one level
\* holding two of them.
C22_Witness ==
    /\ Returned(1)
    /\ NestedObj.cls = "VergaderingGegevens"
    /\ NestDepth(NestedObj) = MaxNest
    /\ TagDepth(NestedXml, "heeftAlsDeelvergadering") = MaxNest
    /\ \E i \in 1..Len(NestedXml.children) :
          Len(ChildrenNamed(NestedXml.children[i], "heeftAlsDeelvergadering")) = 2

\* ---------------------------------------------------------------------
\* save
\* ---------------------------------------------------------------------

Saved == pc = "saved" /\ written.out # ValueError

\* The value a dict holds under a key, None when it lacks the key.
ValueOf(d, key) ==
    IF \E i \in 1..Len(d.pairs) : d.pairs[i].key = PyStr(key)
    THEN d.pairs[CHOOSE i \in 1..Len(d.pairs) : d.pairs[i].key = PyStr(key)].val
    ELSE None

\* C23: save's writer configuration.  Without lxml_kwargs, minify=True
\* writes with xml_declaration False and pretty_print False and makes no
\* indent call; minify=False writes with both True after indenting with four
\* spaces; either way the encoding is UTF-8, nothing else is passed, and the
\* root written is tagged ORI-A.
C23_SaveConfiguration ==
    (Saved /\ written.lxml_kwargs = PyDict(<<>>)) =>
        /\ written.out.tree.tag = "ORI-A"
        /\ Len(written.out.kwargs.pairs) = 3
        /\ ValueOf(written.out.kwargs, "encoding") = PyStr("UTF-8")
        /\ ValueOf(written.out.kwargs, "xml_declaration") = PyBool(~written.minify)
        /\ ValueOf(written.out.kwargs, "pretty_print") = PyBool(~written.minify)
        /\ written.out.indent = IF written.minify THEN None ELSE PyStr("    ")

\* A minified save of a document with two agenda items.
C23_Witness ==
    /\ Saved
    /\ written.lxml_kwargs = PyDict(<<>>)
    /\ written.minify
    /\ written.out.indent = None
    /\ Len(ChildrenNamed(written.out.tree, "agendapunt")) = 2

\* ---------------------------------------------------------------------
\* Termination
\* ---------------------------------------------------------------------

\* The number of records in a record tree: the record and, level by level,
\* every record among the items of its fields.
RECURSIVE RecordNodes(_), RecordNodesAmong(_, _), RecordNodesIn(_, _, _)
RecordNodesAmong(items, j) ==
    IF j > Len(items) THEN 0
    ELSE (IF items[j].k = "obj" THEN RecordNodes(items[j]) ELSE 0)
         + RecordNodesAmong(items, j + 1)
RecordNodesIn(obj, fs, i) ==
    IF i > Len(fs) THEN 0
    ELSE RecordNodesAmong(FieldItems(obj, fs[i].name), 1)
         + RecordNodesIn(obj, fs, i + 1)
RecordNodes(obj) ==
    1 + RecordNodesIn(obj,
                      SelectSeq(dataclasses_fields(obj.cls),
                                LAMBDA f : \E j \in 1..Len(FieldItems(obj, f.name)) :
                                              FieldItems(obj, f.name)[j].k = "obj"),
                      1)

Ended(th) == tpc[th] \in {"returned", "raised"}

\* C24: termination.  On a finite record tree the call comes to an end, by
\* returning or by raising; it never holds more frames than the tree has
\* levels and never begins more invocations than the tree has records; and
\* a call that returns has made exactly one invocation per record of the
\* tree, however deep the tree is.
C24_Terminates ==
    /\ <>Ended(1)
    /\ [](/\ ncalls[1] <= RecordNodes(NestedObj)
          /\ Len(stack[1]) <= 1 + NestDepth(NestedObj)
          /\ Returned(1) => ncalls[1] = RecordNodes(NestedObj))

\* A call that returned from a tree MaxNest levels deep that has more
\* records than levels.
C24_Witness ==
    /\ Returned(1)
    /\ NestDepth(NestedObj) = MaxNest
    /\ ncalls[1] = RecordNodes(NestedObj)
    /\ ncalls[1] > MaxNest + 1
    /\ TagDepth(NestedXml, SelfField(NestedObj.cls)) = MaxNest

\* ---------------------------------------------------------------------
\* The fabricated document of the test
\* ---------------------------------------------------------------------

\* The documents _init_obj(ORI_A) can give, one for each outcome of randint.
\* (_init_obj is followed as it runs where X | Y annotations have
\* typing.Union as their origin.)
Fabricated == {_init_obj("ORI_A", picks) : picks \in Picks}

\* A fabricated document whose meeting has a name lxml rejects.
Spoiled ==
    {[_init_obj("ORI_A", [n \in RandomlyTyped |-> "int"])
         EXCEPT !.attrs["vergadering"].attrs["naam"] = NUL]}

\* The test, statement by statement, in thread 1: obj = _init_obj(ORI_A),
\* then obj.to_xml("ORI_A"), or the obj.to_xml("ORI-A") that obj.save makes.
InitFabricated ==
    /\ \E obj \in Fabricated \cup Spoiled, r \in {"ORI_A", "ORI-A"} :
          arg = [th \in Threads |-> [obj |-> obj, root |-> r]]
    /\ heap = <<>>
    /\ stack = [th \in Threads |-> <<>>]
    /\ tpc = [th \in Threads |-> IF th = 1 THEN "idle" ELSE "unused"]
    /\ ret = [th \in Threads |-> None]
    /\ ncalls = [th \in Threads |-> 0]
    /\ self = None
    /\ nset = 0
    /\ pc = "threads"
    /\ root = None
    /\ fields = <<>>
    /\ xml = None
    /\ written = None

\* ORI_A.to_xml goes on after super().to_xml(root) returned or raised: the
\* new root gets the children of the element that came back.
Assemble ==
    /\ pc = "threads"
    /\ tpc[1] \in {"returned", "raised"}
    /\ xml' = ORI_A_root_elem(IF tpc[1] = "raised" THEN ValueError
                              ELSE Tree(heap, ret[1].id),
                              arg[1].root)
    /\ root' = PyStr(arg[1].root)
    /\ fields' = self_ORI_A_ordered_fields(arg[1].obj)
    /\ pc' = "done"
    /\ UNCHANGED <<self, nset, written>>
    /\ UNCHANGED tvars

\* obj.save("/tmp/t.xml") goes on after its self.to_xml("ORI-A").
Write ==
    /\ pc = "done"
    /\ arg[1].root = "ORI-A"
    /\ written' = [file_or_filename |-> PyStr("/tmp/t.xml"),
                   minify |-> FALSE,
                   lxml_kwargs |-> PyDict(<<>>),
                   out |-> save_from(xml, PyStr("/tmp/t.xml"), FALSE,
                                     PyDict(<<>>))]
    /\ pc' = "saved"
    /\ UNCHANGED <<self, nset, root, fields, xml>>
    /\ UNCHANGED tvars

NextFabricated == NextThreads \/ Assemble \/ Write

SpecFabricated == InitFabricated /\ [][NextFabricated]_vars

\* The records class_dummy_map holds for the self-typed fields.
Minimal == {class_dummy_map(cls) : cls \in SelfTyped}

\* Every record element of elem, the element of record obj, has a child for
\* each field of its record type; with sparing, the elements of the records
\* in Sparse have children for their non-absent fields only.
RECURSIVE Populated(_, _, _)
Populated(obj, elem, Sparse) ==
    \A i \in 1..Len(dataclasses_fields(obj.cls)) :
        LET name == dataclasses_fields(obj.cls)[i].name
            items == FieldItems(obj, name)
            made == ChildrenNamed(elem, name)
        IN  /\ IF obj \in Sparse
               THEN (made # <<>>) <=> (getattr(obj, name) # None)
               ELSE made # <<>>
            /\ Len(made) = Len(items)
            /\ \A j \in 1..Len(items) :
                  items[j].k = "obj" => Populated(items[j], made[j], Sparse)

\* C25 as stated: for a fabricated ORI_A instance to_xml and save complete
\* without raising, and every record element in the output has at least one
\* child for each field of its record type.
C25_EveryRecordElementPopulated ==
    arg[1].obj \in Fabricated =>
        /\ tpc[1] # "raised"
        /\ pc \in {"done", "saved"} =>
              /\ xml # ValueError
              /\ Populated(arg[1].obj, xml, {})
        /\ pc = "saved" => written.out # ValueError

\* C25: for a fabricated ORI_A instance to_xml and save complete without
\* raising, and every record element in the output has at least one child
\* for each field of its record type, except the elements of the minimal
\* records in the self-typed fields, which have children for their
\* non-absent fields only.
C25_FabricatedRecordsPopulated ==
    arg[1].obj \in Fabricated =>
        /\ tpc[1] # "raised"
        /\ pc \in {"done", "saved"} =>
              /\ xml # ValueError
              /\ Populated(arg[1].obj, xml, Minimal)
        /\ pc = "saved" =>
              /\ written.out # ValueError
              /\ written.out.tree = xml

\* The fabricated document was saved: its meeting's element has a child for
\* each of the twenty fields, and the minimal meeting under it two children.
C25_Witness ==
    /\ arg[1].obj \in Fabricated
    /\ pc = "saved"
    /\ written.out # ValueError
    /\ LET meeting == ChildrenNamed(written.out.tree, "vergadering")[1]
       IN  /\ \A i \in 1..Len(VergaderingGegevens) :
                 ChildrenNamed(meeting, VergaderingGegevens[i].name) # <<>>
           /\ Len(ChildrenNamed(meeting, "heeftAlsDeelvergadering")[1].children) = 2

\* ---------------------------------------------------------------------
\* Shape of the tree
\* ---------------------------------------------------------------------

\* The number of items over the fields of obj, from the i-th field on; a
\* field that is None has none.
RECURSIVE ItemCount(_, _)
ItemCount(obj, i) ==
    IF i > Len(dataclasses_fields(obj.cls)) THEN 0
    ELSE Len(FieldItems(obj, dataclasses_fields(obj.cls)[i].name))
         + ItemCount(obj, i + 1)

\* No element under elem, elem included, has both a text and children.
RECURSIVE NeverBoth(_)
NeverBoth(elem) ==
    /\ elem.text = None \/ elem.children = <<>>
    /\ \A k \in 1..Len(elem.children) : NeverBoth(elem.children[k])

\* elem, the element of record obj, has no text and as many children as obj
\* has items; the child of a record item is a record element in turn, the
\* child of any other item has a text and no children.
RECURSIVE RecordElement(_, _)
RecordElement(obj, elem) ==
    /\ elem.text = None
    /\ Len(elem.children) = ItemCount(obj, 1)
    /\ \A n \in NameSet(dataclasses_fields(obj.cls)) :
          /\ Len(ChildrenNamed(elem, n)) = Len(FieldItems(obj, n))
          /\ \A i \in 1..Len(FieldItems(obj, n)) :
                 LET item == FieldItems(obj, n)[i]
                     child == ChildrenNamed(elem, n)[i]
                 IN  IF item.k = "obj"
                     THEN RecordElement(item, child)
                     ELSE /\ child.text \in {PyStr(str(item))}
                          /\ child.children = <<>>

\* C26: the shape of every tree to_xml returns.  Each element is a record
\* element (no text, children only, possibly none) or a value element (a
\* text, no children), never both, and a record element has as many children
\* as its record has items over its fields that are not None.
C26_TreeShape ==
    (Done /\ ~Raised) =>
        /\ NeverBoth(xml)
        /\ RecordElement(self, xml)

\* A returned tree with value elements, a record element that has children
\* and a record element that has none.
C26_Witness ==
    /\ Done
    /\ ~Raised
    /\ \E k \in 1..Len(xml.children) : xml.children[k].text # None
    /\ \E k \in 1..Len(xml.children) :
          xml.children[k].text = None /\ xml.children[k].children # <<>>
    /\ \E k \in 1..Len(xml.children) :
          xml.children[k].text = None /\ xml.children[k].children = <<>>

\* ---------------------------------------------------------------------
\* The absence check and the items of a sequence
\* ---------------------------------------------------------------------

\* The fields of the serialized record that hold a list.
ListFields ==
    {n \in NameSet(dataclasses_fields(self.cls)) : getattr(self, n).k = "list"}

\* C27: the absence check looks at the field value only.  A field holding a
\* sequence of N items yields exactly N children: an empty sequence yields
\* none, and the tree is the one the record gives with the field None; an
\* item that is None yields one child, with the text "None".
C27_AbsenceCheckOnFieldOnly ==
    (Done /\ ~Raised) =>
        \A n \in ListFields :
            LET items == getattr(self, n).items
                made == ChildrenNamed(xml, n)
            IN  /\ Len(made) = Len(items)
                /\ items = <<>> =>
                      xml = to_xml([self EXCEPT !.attrs[n] = None], root.s)
                /\ \A j \in 1..Len(items) :
                      items[j] = None =>
                          /\ made[j].text = PyStr("None")
                          /\ made[j].children = <<>>

\* A returned tree for a list of None and a value: two children, the first
\* with the text "None".
C27_Witness ==
    /\ Done
    /\ ~Raised
    /\ \E n \in ListFields :
          /\ Len(getattr(self, n).items) = 2
          /\ getattr(self, n).items[1] = None
          /\ Len(ChildrenNamed(xml, n)) = 2
          /\ ChildrenNamed(xml, n)[1].text = PyStr("None")

\* ---------------------------------------------------------------------
\* Nested records without values
\* ---------------------------------------------------------------------

\* Every field of the record is None.
Hollow(item) ==
    item.k = "obj" /\ \A n \in DOMAIN item.attrs : item.attrs[n] = None

\* C28: a nested record that is present is never dropped.  A field whose
\* items are records yields one child per record, whatever the records
\* hold, and the child of a record all of whose fields are None is an
\* element named after the field with no children and no text.
C28_EmptyRecordKept ==
    (Done /\ ~Raised) =>
        \A n \in NameSet(dataclasses_fields(self.cls)) :
            LET items == FieldItems(self, n)
                made == ChildrenNamed(xml, n)
            IN  (\A j \in 1..Len(items) : items[j].k = "obj") =>
                    /\ Len(made) = Len(items)
                    /\ \A j \in 1..Len(items) :
                          Hollow(items[j]) => made[j] = Element(n)

\* A field holding a record without values and one with values gave two
\* children, the first without children and text, the second with children.
C28_Witness ==
    /\ Done
    /\ ~Raised
    /\ \E n \in NameSet(dataclasses_fields(self.cls)) :
          /\ Len(FieldItems(self, n)) = 2
          /\ Hollow(FieldItems(self, n)[1])
          /\ ~Hollow(FieldItems(self, n)[2])
          /\ Len(ChildrenNamed(xml, n)) = 2
          /\ ChildrenNamed(xml, n)[1] = Element(n)
          /\ ChildrenNamed(xml, n)[2].children # <<>>

====
